---- MODULE Spec2Model ----
(***************************************************************************)
(* Model of the cache crate: the ordered map (src/src/map.rs), a doubly    *)
(* linked list of heap nodes interleaved with a hash index and a freelist  *)
(* of node shells, and the FIFO, LRU, SLRU and 2Q caches built on it.      *)
(*                                                                         *)
(* One object is under observation in a behaviour; `kind` says which.      *)
(* Map operations are operators on a map record; every public operation is *)
(* an action that applies them and records the call in `last`.             *)
(***************************************************************************)
EXTENDS Integers, Sequences, FiniteSets, TLC

\* ------------------------------------------------------------------ bounds
MaxKey == 3
MaxVal == 2
MaxSize == 2
MaxCount == 1
MaxSeed == 1

Keys == 1..MaxKey
Vals == 1..MaxVal

\* ---------------------------------------------------------- representation
\* Option<NonNull<Node>>::None
None == 0
\* content of a key or value slot whose value was moved out by ptr::read
Moved == 0
\* Option<T>: None and Some(x)
NoneV == <<>>
Some(x) == <<x>>

VARIABLES
    kind,           \* which object is observed: "map", "fifo", "lru", "slru", "q2"
    l_map,          \* the ordered map itself, or the l_map of a FIFO / LRU cache
    in_, main, out, \* the segments of an SLRU / 2Q cache
    max_size, max_size_in, max_size_main, max_size_out,
    hit_count, miss_count,
    hash_builder,   \* the seed of the 2Q cache's hasher
    callback,       \* whether an eviction callback is installed
    last,           \* the last call: operation, arguments, result, effects
    rt,             \* round-trip observer: an entry followed from push_front
    stored          \* per key, the value the caller stored last (0: none held)

sizes == <<max_size, max_size_in, max_size_main, max_size_out>>
counts == <<hit_count, miss_count>>
segs == <<in_, main, out>>
vars == <<kind, l_map, in_, main, out, max_size, max_size_in, max_size_main,
          max_size_out, hit_count, miss_count, hash_builder, callback, last, rt,
          stored>>

\* let x = ...; body: the body applied to the value bound
With(x, body(_)) == body(x)

\* Node::new
Node(k, v) == [next |-> None, prev |-> None, k |-> k, v |-> v]

\* LinkedHashMap::with_hasher / with_capacity_and_hasher
\* heap: the nodes this map has allocated and not yet released, by address;
\* map: the HashMap<KeyPtr<K>, NonNull<Node>> as a set of entries, key_ptr
\* being the address of the node whose k field the KeyPtr points into.
with_hasher ==
    [head |-> None, tail |-> None, empty |-> None, empty_len |-> 0,
     map |-> {}, heap |-> <<>>]

\* HashMap::get through KeyPtr / KeyRef: hashing and equality dereference
\* the key pointer.
MapFind(m, q) == {e \in m.map : m.heap[e.key_ptr].k = q}

MapGet(m, q) ==
    IF MapFind(m, q) = {} THEN None ELSE (CHOOSE e \in MapFind(m, q) : TRUE).node

\* HashMap::remove
MapRemove(m, q) == [m EXCEPT !.map = m.map \ MapFind(m, q)]

\* HashMap::insert(KeyPtr::from(&node.k), node): an equal key keeps its
\* stored key and gets the new value.
MapInsert(m, node) ==
    LET old == MapFind(m, m.heap[node].k)
    IN  IF old = {}
        THEN [m EXCEPT !.map = m.map \cup {[key_ptr |-> node, node |-> node]}]
        ELSE [m EXCEPT !.map = (m.map \ old) \cup
                                {[key_ptr |-> e.key_ptr, node |-> node] : e \in old}]

len(m) == Cardinality(m.map)

is_empty(m) == m.head = None

contains_key(m, q) == MapFind(m, q) # {}

\* Box::new: a fresh address, the lowest one not in use
Alloc(m) ==
    CHOOSE a \in 1..(Cardinality(DOMAIN m.heap) + 1) :
        /\ a \notin DOMAIN m.heap
        /\ \A b \in 1..(a - 1) : b \in DOMAIN m.heap

\* releasing a Box<Node>
Free(heap, a) == [b \in (DOMAIN heap) \ {a} |-> heap[b]]

\* number of slots of node a that hold a value (k and v)
Held(heap, a) ==
    (IF heap[a].k = Moved THEN 0 ELSE 1) + (IF heap[a].v = Moved THEN 0 ELSE 1)

\* push_front_node that leaves the old head's prev link as it was
push_front_node_no_back_link(m, node) ==
    [m EXCEPT !.heap = [m.heap EXCEPT ![node].next = m.head, ![node].prev = None],
              !.tail = IF m.head = None THEN node ELSE m.tail,
              !.head = node]

push_front_node(m, node) ==
    LET h1 == [m.heap EXCEPT ![node].next = m.head, ![node].prev = None]
        h2 == IF m.head = None THEN h1 ELSE [h1 EXCEPT ![m.head].prev = node]
    IN  [m EXCEPT !.heap = h2,
                  !.tail = IF m.head = None THEN node ELSE m.tail,
                  !.head = node]

\* pop_front_node that leaves the prev link of the new head as it was
pop_front_node_keeps_prev(m) ==
    IF m.head = None THEN [m |-> m, node |-> None]
    ELSE LET node == m.head
             nh   == m.heap[node].next
         IN  [m |-> [m EXCEPT !.head = nh,
                              !.tail = IF nh = None THEN None ELSE m.tail],
              node |-> node]

pop_front_node(m) ==
    IF m.head = None THEN [m |-> m, node |-> None]
    ELSE LET node == m.head
             nh   == m.heap[node].next
         IN  [m |-> [m EXCEPT !.head = nh,
                              !.tail = IF nh = None THEN None ELSE m.tail,
                              !.heap = IF nh = None THEN m.heap
                                       ELSE [m.heap EXCEPT ![nh].prev = None]],
              node |-> node]

push_back_node(m, node) ==
    LET h1 == [m.heap EXCEPT ![node].next = None, ![node].prev = m.tail]
        h2 == IF m.tail = None THEN h1 ELSE [h1 EXCEPT ![m.tail].next = node]
    IN  [m EXCEPT !.heap = h2,
                  !.head = IF m.tail = None THEN node ELSE m.head,
                  !.tail = node]

\* pop_back_node that leaves head as it was when the list becomes empty
pop_back_node_keeps_head(m) ==
    IF m.tail = None THEN [m |-> m, node |-> None]
    ELSE LET node == m.tail
             nt   == m.heap[node].prev
         IN  [m |-> [m EXCEPT !.tail = nt,
                              !.heap = IF nt = None THEN m.heap
                                       ELSE [m.heap EXCEPT ![nt].next = None]],
              node |-> node]

pop_back_node(m) ==
    IF m.tail = None THEN [m |-> m, node |-> None]
    ELSE LET node == m.tail
             nt   == m.heap[node].prev
         IN  [m |-> [m EXCEPT !.tail = nt,
                              !.head = IF nt = None THEN None ELSE m.head,
                              !.heap = IF nt = None THEN m.heap
                                       ELSE [m.heap EXCEPT ![nt].next = None]],
              node |-> node]

\* unlink_node that leaves tail as it was when the node is the tail
unlink_node_keeps_tail(m, node) ==
    LET n  == m.heap[node]
        h1 == IF n.prev # None THEN [m.heap EXCEPT ![n.prev].next = n.next] ELSE m.heap
        h2 == IF n.next # None THEN [h1 EXCEPT ![n.next].prev = n.prev] ELSE h1
    IN  [m EXCEPT !.heap = h2,
                  !.head = IF n.prev # None THEN m.head ELSE n.next]

unlink_node(m, node) ==
    LET n  == m.heap[node]
        h1 == IF n.prev # None THEN [m.heap EXCEPT ![n.prev].next = n.next] ELSE m.heap
        h2 == IF n.next # None THEN [h1 EXCEPT ![n.next].prev = n.prev] ELSE h1
    IN  [m EXCEPT !.heap = h2,
                  !.head = IF n.prev # None THEN m.head ELSE n.next,
                  !.tail = IF n.next # None THEN m.tail ELSE n.prev]

\* the node becomes a shell on the freelist, its key and value are read out
flush_node(m, node) ==
    [m |-> [m EXCEPT !.heap = [m.heap EXCEPT ![node] =
                                  [next |-> m.empty, prev |-> None,
                                   k |-> Moved, v |-> Moved]],
                     !.empty = node,
                     !.empty_len = m.empty_len + 1],
     k |-> m.heap[node].k,
     v |-> m.heap[node].v]

\* new_node that boxes a new node whatever the freelist holds
new_node_always_boxes(m, k, v) ==
    LET node == Alloc(m)
    IN  [m |-> [m EXCEPT !.heap = (node :> Node(k, v)) @@ m.heap],
         node |-> node,
         lost |-> 0]

\* lost: slots holding a value that ptr::write overwrites without dropping
new_node(m, k, v) ==
    IF m.empty # None
    THEN LET node == m.empty
         IN  [m |-> [m EXCEPT !.empty = m.heap[node].next,
                              !.heap = [m.heap EXCEPT ![node] = Node(k, v)],
                              !.empty_len = m.empty_len - 1],
              node |-> node,
              lost |-> Held(m.heap, node)]
    ELSE LET node == Alloc(m)
         IN  [m |-> [m EXCEPT !.heap = (node :> Node(k, v)) @@ m.heap],
              node |-> node,
              lost |-> 0]

\* the while loop of drop_empty: every shell is released as a Box<Node>,
\* whose drop glue drops the k and v fields of the node.
\* dropped: slots dropped that held a value; stale: slots dropped that did not.
RECURSIVE drop_empty_loop(_, _, _, _)
drop_empty_loop(m, count, dropped, stale) ==
    IF m.empty = None THEN [m |-> m, count |-> count, dropped |-> dropped, stale |-> stale]
    ELSE LET node == m.empty
         IN  drop_empty_loop([m EXCEPT !.empty = m.heap[node].next,
                                       !.heap = Free(m.heap, node)],
                             count + 1,
                             dropped + Held(m.heap, node),
                             stale + (2 - Held(m.heap, node)))

drop_empty(m) ==
    LET r == drop_empty_loop(m, 0, 0, 0)
    IN  IF r.count # m.empty_len
        THEN [m |-> r.m, dropped |-> r.dropped, stale |-> r.stale, panic |-> TRUE]
        ELSE [m |-> [r.m EXCEPT !.empty_len = 0],
              dropped |-> r.dropped, stale |-> r.stale, panic |-> FALSE]

\* while let Some(_) = self.pop_front_node() {}: each popped Box<Node> is
\* dropped with its key and value
RECURSIVE pop_all(_, _, _)
pop_all(m, dropped, stale) ==
    LET r == pop_front_node(m)
    IN  IF r.node = None THEN [m |-> m, dropped |-> dropped, stale |-> stale]
        ELSE pop_all([r.m EXCEPT !.heap = Free(r.m.heap, r.node)],
                     dropped + Held(r.m.heap, r.node),
                     stale + (2 - Held(r.m.heap, r.node)))

clear(m) ==
    LET m1 == [m EXCEPT !.map = {}]
        r1 == pop_all(m1, 0, 0)
        r2 == drop_empty(r1.m)
    IN  [m |-> r2.m, dropped |-> r1.dropped + r2.dropped, stale |-> r1.stale + r2.stale,
         panic |-> r2.panic]

\* Drop for LinkedHashMap; the index is released with the struct
drop(m) ==
    LET r1 == pop_all(m, 0, 0)
        r2 == drop_empty(r1.m)
    IN  [m |-> [r2.m EXCEPT !.map = {}], dropped |-> r1.dropped + r2.dropped,
         stale |-> r1.stale + r2.stale, panic |-> r2.panic]

shrink_to_fit(m) == drop_empty(m)

front(m) ==
    IF m.head = None THEN NoneV ELSE Some(<<m.heap[m.head].k, m.heap[m.head].v>>)

back(m) ==
    IF m.tail = None THEN NoneV ELSE Some(<<m.heap[m.tail].k, m.heap[m.tail].v>>)

\* front_mut / back_mut followed by the caller's store through the reference
front_mut(m, w) ==
    IF m.head = None THEN [m |-> m, ret |-> NoneV]
    ELSE [m |-> [m EXCEPT !.heap[m.head].v = w], ret |-> Some(m.heap[m.head].v)]

back_mut(m, w) ==
    IF m.tail = None THEN [m |-> m, ret |-> NoneV]
    ELSE [m |-> [m EXCEPT !.heap[m.tail].v = w], ret |-> Some(m.heap[m.tail].v)]

pop_front(m) ==
    With(pop_front_node(m), LAMBDA r :
        IF r.node = None THEN [m |-> m, ret |-> NoneV]
        ELSE With(flush_node(MapRemove(r.m, r.m.heap[r.node].k), r.node), LAMBDA f :
                [m |-> f.m, ret |-> Some(<<f.k, f.v>>)]))

\* pop_back that takes the entry at the head
pop_back_takes_head(m) == pop_front(m)

pop_back(m) ==
    With(pop_back_node(m), LAMBDA r :
        IF r.node = None THEN [m |-> m, ret |-> NoneV]
        ELSE With(flush_node(MapRemove(r.m, r.m.heap[r.node].k), r.node), LAMBDA f :
                [m |-> f.m, ret |-> Some(<<f.k, f.v>>)]))

get_key_value(m, q) ==
    With(MapGet(m, q), LAMBDA node :
        IF node = None THEN NoneV ELSE Some(<<m.heap[node].k, m.heap[node].v>>))

get(m, q) ==
    With(MapGet(m, q), LAMBDA node :
        IF node = None THEN NoneV ELSE Some(m.heap[node].v))

\* get_mut that also moves the entry to the front, as a cache lookup would
get_mut_promotes(m, q, w) ==
    With(MapGet(m, q), LAMBDA node :
        IF node = None THEN [m |-> m, ret |-> NoneV]
        ELSE [m |-> push_front_node(unlink_node([m EXCEPT !.heap[node].v = w], node), node),
              ret |-> Some(m.heap[node].v)])

\* get_mut followed by the caller's store of w through the reference;
\* ret is the value the reference pointed at
get_mut(m, q, w) ==
    With(MapGet(m, q), LAMBDA node :
        IF node = None THEN [m |-> m, ret |-> NoneV]
        ELSE [m |-> [m EXCEPT !.heap[node].v = w], ret |-> Some(m.heap[node].v)])

move_to_front(m, q) ==
    With(MapGet(m, q), LAMBDA node :
        IF node = None THEN [m |-> m, ret |-> FALSE]
        ELSE [m |-> push_front_node(unlink_node(m, node), node), ret |-> TRUE])

move_to_back(m, q) ==
    With(MapGet(m, q), LAMBDA node :
        IF node = None THEN [m |-> m, ret |-> FALSE]
        ELSE [m |-> push_back_node(unlink_node(m, node), node), ret |-> TRUE])

\* remove that leaves the node linked in the list
remove_without_unlink(m, q) ==
    With(MapGet(m, q), LAMBDA node :
        IF node = None THEN [m |-> m, ret |-> NoneV]
        ELSE With(flush_node(MapRemove(m, q), node), LAMBDA f :
                [m |-> f.m, ret |-> Some(f.v)]))

remove(m, q) ==
    With(MapGet(m, q), LAMBDA node :
        IF node = None THEN [m |-> m, ret |-> NoneV]
        ELSE With(flush_node(unlink_node(MapRemove(m, q), node), node), LAMBDA f :
                [m |-> f.m, ret |-> Some(f.v)]))

remove_entry(m, q) ==
    With(MapGet(m, q), LAMBDA node :
        IF node = None THEN [m |-> m, ret |-> NoneV]
        ELSE With(flush_node(unlink_node(MapRemove(m, q), node), node), LAMBDA f :
                [m |-> f.m, ret |-> Some(<<f.k, f.v>>)]))

\* insert that does not unlink the node of a key already present
insert_without_unlink(m, k, v) ==
    With(MapGet(m, k), LAMBDA found :
        IF found # None
        THEN [m |-> [m EXCEPT !.heap[found].v = v],
              node |-> found, old_v |-> Some(m.heap[found].v), lost |-> 0]
        ELSE With(new_node(m, k, v), LAMBDA n :
                [m |-> MapInsert(n.m, n.node), node |-> n.node,
                 old_v |-> NoneV, lost |-> n.lost]))

\* insert: the node is an existing one (value replaced, unlinked) or a new
\* one (entered into the index); old_v is the replaced value
insert(m, k, v) ==
    With(MapGet(m, k), LAMBDA found :
        IF found # None
        THEN [m |-> unlink_node([m EXCEPT !.heap[found].v = v], found),
              node |-> found, old_v |-> Some(m.heap[found].v), lost |-> 0]
        ELSE With(new_node(m, k, v), LAMBDA n :
                [m |-> MapInsert(n.m, n.node), node |-> n.node,
                 old_v |-> NoneV, lost |-> n.lost]))

push_front(m, k, v) ==
    With(insert(m, k, v), LAMBDA r :
        [m |-> push_front_node(r.m, r.node), ret |-> r.old_v, lost |-> r.lost])

push_back(m, k, v) ==
    With(insert(m, k, v), LAMBDA r :
        [m |-> push_back_node(r.m, r.node), ret |-> r.old_v, lost |-> r.lost])


\* --------------------------------------------------------------- observers
\* the (key, value) pairs met walking next links from node p, for at most
\* fuel nodes
RECURSIVE WalkNext(_, _, _)
WalkNext(m, p, fuel) ==
    IF p = None \/ fuel = 0 THEN <<>>
    ELSE <<<<m.heap[p].k, m.heap[p].v>>>> \o WalkNext(m, m.heap[p].next, fuel - 1)

\* the (key, value) pairs met walking prev links from node p
RECURSIVE WalkPrev(_, _, _)
WalkPrev(m, p, fuel) ==
    IF p = None \/ fuel = 0 THEN <<>>
    ELSE <<<<m.heap[p].k, m.heap[p].v>>>> \o WalkPrev(m, m.heap[p].prev, fuel - 1)

\* one more than the number of nodes: a walk that long has met a node twice
Fuel(m) == Cardinality(DOMAIN m.heap) + 1

\* head-to-tail entry sequence
Entries(m) == WalkNext(m, m.head, Fuel(m))

\* tail-to-head entry sequence
EntriesBack(m) == WalkPrev(m, m.tail, Fuel(m))

\* the addresses on the freelist chain
RECURSIVE Chain(_, _, _)
Chain(m, p, fuel) ==
    IF p = None \/ fuel = 0 THEN <<>>
    ELSE <<p>> \o Chain(m, m.heap[p].next, fuel - 1)

Freelist(m) == Chain(m, m.empty, Fuel(m))

\* the keys of the hash index, each read through its key pointer
IndexKeys(m) == {m.heap[e.key_ptr].k : e \in m.map}

Reverse(s) == [i \in 1..Len(s) |-> s[Len(s) + 1 - i]]

KeysOf(s) == {s[i][1] : i \in 1..Len(s)}

\* sequence s without the entries of key k
Without(s, k) == SelectSeq(s, LAMBDA e : e[1] # k)

\* position of key k in s, 0 when absent
Pos(s, k) == IF k \in KeysOf(s) THEN CHOOSE i \in 1..Len(s) : s[i][1] = k ELSE 0

\* ------------------------------------------------------------ the record
\* of a call. dropped: key and value slots the object dropped while they
\* held their content; stale: slots it dropped after their content had been
\* moved out; lost: slots overwritten while holding their content; panic:
\* the call was aborted by a panic; ev: the pairs evicted for capacity;
\* cb: the pairs the eviction callback was invoked with; abort: the call
\* ended the process.
Call(op, k, v, ret) ==
    [op |-> op, k |-> k, v |-> v, ret |-> ret, dropped |-> 0, stale |-> 0,
     lost |-> 0, panic |-> FALSE, abort |-> FALSE, ev |-> <<>>, cb |-> <<>>]

\* the record of a call that releases nodes (clear, shrink_to_fit, drop)
ReleaseCall(op, r) ==
    [Call(op, 0, 0, NoneV) EXCEPT
        !.dropped = r.dropped, !.stale = r.stale, !.panic = r.panic]

\* a call that releases nodes is recorded. Dropping a slot whose content was
\* moved out is a second drop of that key or value: undefined behaviour,
\* which either passes unnoticed or ends the process.
Released(op, r) ==
    \E abort \in BOOLEAN :
        /\ abort => r.stale > 0
        /\ last' = [ReleaseCall(op, r) EXCEPT !.abort = abort]

\* the object can be called: it was not dropped and the process runs
Alive == last.op # "drop" /\ ~last.abort

\* the round-trip observer is idle, or follows the entry (k, v) of a
\* push_front. due: the entries the push left behind it, less the pop_back
\* calls since; moved: the push_front calls since that took an entry from
\* behind it. due is -1 in the state after the pop_back that returned the
\* followed key.
RtOff == [on |-> FALSE, k |-> 0, v |-> 0, due |-> 0, moved |-> 0]
RtIdle == [on |-> TRUE, k |-> 0, v |-> 0, due |-> 0, moved |-> 0]

\* fifo::Cache::with_hasher / lru::Cache::with_hasher
Clamp1(size) == IF size < 1 THEN 1 ELSE size

\* slru::Cache::with_param_and_hasher / q2::Cache::with_param_and_hasher
Clamp2(size) == IF size < 2 THEN 2 ELSE size

\* the factors 0.75 and 0.50 as fractions
DEFAULT_MAIN_CF == <<3, 4>>
DEFAULT_OUT_CF == <<1, 2>>

\* (n as f64 * f) as usize: the product is exact for these factors, the cast
\* truncates
Scale(n, f) == (n * f[1]) \div f[2]

\* 1 as f64 - f
OneMinus(f) == <<f[2] - f[1], f[2]>>

\* the value of the ghost list: ()
Unit == 1

\* BuildHasher::build_hasher, Hash::hash, Hasher::finish: the fingerprint of
\* key k under the hasher seeded hb. Seed 0 keeps keys apart; a higher seed
\* makes hb + 1 neighbouring keys collide.
finish(hb, k) == (k + hb) \div (hb + 1)

\* ----------------------------------------------------------------- Init
InitKind(K) ==
    /\ kind \in K
    /\ l_map = with_hasher
    /\ in_ = with_hasher /\ main = with_hasher /\ out = with_hasher
    /\ \E size \in 0..MaxSize :
          max_size = CASE kind = "map" -> 0
                       [] kind \in {"fifo", "lru"} -> Clamp1(size)
                       [] OTHER -> Clamp2(size)
    /\ max_size_in = IF kind \in {"slru", "q2"}
                     THEN Scale(max_size, OneMinus(DEFAULT_MAIN_CF)) ELSE 0
    /\ max_size_main = IF kind = "slru" THEN Scale(max_size, DEFAULT_MAIN_CF) ELSE 0
    /\ max_size_out = IF kind = "q2" THEN Scale(max_size, DEFAULT_OUT_CF) ELSE 0
    /\ hit_count = 0 /\ miss_count = 0
    /\ hash_builder \in IF kind = "q2" THEN 0..MaxSeed ELSE {0}
    /\ callback = FALSE
    /\ last = Call("new", 0, 0, NoneV)
    /\ stored = [k \in Keys |-> 0]

\* -------------------------------------------------- ordered-map actions
IsMap == kind = "map" /\ Alive

Same == UNCHANGED <<kind, segs, sizes, counts, hash_builder, callback>>

\* the observer keeps following while the entry is not touched and nothing
\* is placed behind it
\* k: the key the call was given, for pop_back the key it returned
RtStep(op, k) ==
    IF rt.k = 0 THEN [rt EXCEPT !.due = 0]
    ELSE CASE op = "push_front" /\ k # rt.k ->
                IF Pos(Entries(l_map), k) > Pos(Entries(l_map), rt.k)
                THEN [rt EXCEPT !.moved = rt.moved + 1] ELSE rt
           [] op \in {"get", "get_key_value", "contains_key", "front", "back"} -> rt
           [] op = "pop_back" /\ k # rt.k -> [rt EXCEPT !.due = rt.due - 1]
           [] op = "pop_back" /\ k = rt.k ->
                [rt EXCEPT !.k = 0, !.v = 0, !.due = -1, !.moved = 0]
           [] OTHER -> [rt EXCEPT !.k = 0, !.v = 0, !.due = 0, !.moved = 0]

Map_push_front ==
    /\ IsMap
    /\ \E k \in Keys, v \in Vals, follow \in BOOLEAN :
          \E r \in {push_front(l_map, k, v)} :
          /\ follow => rt.on
          /\ l_map' = r.m
          /\ last' = [Call("push_front", k, v, r.ret) EXCEPT !.lost = r.lost]
          /\ rt' = IF follow THEN [on |-> TRUE, k |-> k, v |-> v, due |-> len(r.m) - 1,
                                   moved |-> 0]
                   ELSE RtStep("push_front", k)
          /\ stored' = [stored EXCEPT ![k] = v]
    /\ Same

Map_push_back ==
    /\ IsMap
    /\ \E k \in Keys, v \in Vals :
          \E r \in {push_back(l_map, k, v)} :
          /\ l_map' = r.m
          /\ last' = [Call("push_back", k, v, r.ret) EXCEPT !.lost = r.lost]
          /\ rt' = RtStep("push_back", k)
          /\ stored' = [stored EXCEPT ![k] = v]
    /\ Same

Map_pop_front ==
    /\ IsMap
    /\ \E r \in {pop_front(l_map)} :
          /\ l_map' = r.m
          /\ last' = Call("pop_front", 0, 0, r.ret)
          /\ rt' = RtStep("pop_front", 0)
          /\ stored' = IF r.ret = NoneV THEN stored ELSE [stored EXCEPT ![r.ret[1][1]] = 0]
    /\ Same

Map_pop_back ==
    /\ IsMap
    /\ \E r \in {pop_back(l_map)} :
          /\ l_map' = r.m
          /\ last' = Call("pop_back", 0, 0, r.ret)
          /\ rt' = RtStep("pop_back", IF r.ret = NoneV THEN 0 ELSE r.ret[1][1])
          /\ stored' = IF r.ret = NoneV THEN stored ELSE [stored EXCEPT ![r.ret[1][1]] = 0]
    /\ Same

Map_get ==
    /\ IsMap
    /\ \E k \in Keys :
          /\ last' = Call("get", k, 0, get(l_map, k))
          /\ rt' = RtStep("get", k)
    /\ UNCHANGED l_map
    /\ UNCHANGED stored
    /\ Same

Map_get_key_value ==
    /\ IsMap
    /\ \E k \in Keys :
          /\ last' = Call("get_key_value", k, 0, get_key_value(l_map, k))
          /\ rt' = RtStep("get_key_value", k)
    /\ UNCHANGED l_map
    /\ UNCHANGED stored
    /\ Same

Map_contains_key ==
    /\ IsMap
    /\ \E k \in Keys :
          /\ last' = Call("contains_key", k, 0, contains_key(l_map, k))
          /\ rt' = RtStep("contains_key", k)
    /\ UNCHANGED l_map
    /\ UNCHANGED stored
    /\ Same

Map_front ==
    /\ IsMap
    /\ last' = Call("front", 0, 0, front(l_map))
    /\ rt' = RtStep("front", 0)
    /\ UNCHANGED l_map
    /\ UNCHANGED stored
    /\ Same

Map_back ==
    /\ IsMap
    /\ last' = Call("back", 0, 0, back(l_map))
    /\ rt' = RtStep("back", 0)
    /\ UNCHANGED l_map
    /\ UNCHANGED stored
    /\ Same

Map_get_mut ==
    /\ IsMap
    /\ \E k \in Keys, w \in Vals :
          \E r \in {get_mut(l_map, k, w)} :
          /\ l_map' = r.m
          /\ last' = Call("get_mut", k, w, r.ret)
          /\ rt' = RtStep("get_mut", k)
          /\ stored' = IF r.ret = NoneV THEN stored ELSE [stored EXCEPT ![k] = w]
    /\ Same

Map_front_mut ==
    /\ IsMap
    /\ \E w \in Vals :
          \E r \in {front_mut(l_map, w)} :
          /\ l_map' = r.m
          /\ last' = Call("front_mut", 0, w, r.ret)
          /\ rt' = RtStep("front_mut", 0)
          /\ stored' = IF r.ret = NoneV THEN stored ELSE [stored EXCEPT ![front(l_map)[1][1]] = w]
    /\ Same

Map_back_mut ==
    /\ IsMap
    /\ \E w \in Vals :
          \E r \in {back_mut(l_map, w)} :
          /\ l_map' = r.m
          /\ last' = Call("back_mut", 0, w, r.ret)
          /\ rt' = RtStep("back_mut", 0)
          /\ stored' = IF r.ret = NoneV THEN stored ELSE [stored EXCEPT ![back(l_map)[1][1]] = w]
    /\ Same

Map_move_to_front ==
    /\ IsMap
    /\ \E k \in Keys :
          \E r \in {move_to_front(l_map, k)} :
          /\ l_map' = r.m
          /\ last' = Call("move_to_front", k, 0, r.ret)
          /\ rt' = RtStep("move_to_front", k)
    /\ UNCHANGED stored
    /\ Same

Map_move_to_back ==
    /\ IsMap
    /\ \E k \in Keys :
          \E r \in {move_to_back(l_map, k)} :
          /\ l_map' = r.m
          /\ last' = Call("move_to_back", k, 0, r.ret)
          /\ rt' = RtStep("move_to_back", k)
    /\ UNCHANGED stored
    /\ Same

Map_remove ==
    /\ IsMap
    /\ \E k \in Keys :
          \E r \in {remove(l_map, k)} :
          /\ l_map' = r.m
          /\ last' = Call("remove", k, 0, r.ret)
          /\ rt' = RtStep("remove", k)
          /\ stored' = [stored EXCEPT ![k] = 0]
    /\ Same

Map_remove_entry ==
    /\ IsMap
    /\ \E k \in Keys :
          \E r \in {remove_entry(l_map, k)} :
          /\ l_map' = r.m
          /\ last' = Call("remove_entry", k, 0, r.ret)
          /\ rt' = RtStep("remove_entry", k)
          /\ stored' = [stored EXCEPT ![k] = 0]
    /\ Same

Map_clear ==
    /\ IsMap
    /\ \E r \in {clear(l_map)} :
          /\ l_map' = r.m
          /\ Released("clear", r)
    /\ rt' = RtStep("clear", 0)
    /\ stored' = [k \in Keys |-> 0]
    /\ Same

Map_shrink_to_fit ==
    /\ IsMap
    /\ \E r \in {shrink_to_fit(l_map)} :
          /\ l_map' = r.m
          /\ Released("shrink_to_fit", r)
    /\ rt' = RtStep("shrink_to_fit", 0)
    /\ UNCHANGED stored
    /\ Same

Map_drop ==
    /\ IsMap
    /\ \E r \in {drop(l_map)} :
          /\ l_map' = r.m
          /\ Released("drop", r)
    /\ rt' = RtStep("drop", 0)
    /\ stored' = [k \in Keys |-> 0]
    /\ Same

MapNext ==
    \/ Map_push_front \/ Map_push_back \/ Map_pop_front \/ Map_pop_back
    \/ Map_get \/ Map_get_key_value \/ Map_contains_key \/ Map_front \/ Map_back
    \/ Map_get_mut \/ Map_front_mut \/ Map_back_mut
    \/ Map_move_to_front \/ Map_move_to_back \/ Map_remove \/ Map_remove_entry
    \/ Map_clear \/ Map_shrink_to_fit \/ Map_drop

\* the ordered map alone
InitMap == InitKind({"map"}) /\ rt = RtOff

SpecMap == InitMap /\ [][MapNext]_vars

\* the ordered map with the round-trip observer
InitRT == InitKind({"map"}) /\ rt = RtIdle

\* the calls of a round trip: push_front, get and pop_back, and remove, which
\* touches the entry that is followed
RTNext ==
    \/ Map_push_front \/ Map_pop_back \/ Map_get \/ Map_remove

SpecRT == InitRT /\ [][RTNext]_vars


\* =============================================================== caches
IsCache(c) == kind = c /\ Alive

\* what a call leaves alone
Keep(changed) ==
    /\ UNCHANGED <<kind, sizes, hash_builder, rt, stored>>
    /\ IF "l_map" \in changed THEN TRUE ELSE UNCHANGED l_map
    /\ IF "segs" \in changed THEN TRUE ELSE UNCHANGED segs
    /\ IF "counts" \in changed THEN TRUE ELSE UNCHANGED counts
    /\ IF "callback" \in changed THEN TRUE ELSE UNCHANGED callback

\* a callback invoked twice for each evicted pair
Invoked_twice(ev) == IF callback THEN ev \o ev ELSE <<>>

\* the callback is invoked with the evicted pairs when one is installed
Invoked(ev) == IF callback THEN ev ELSE <<>>

\* the record of a cache call that evicted ev; the call is aborted when the
\* callback panics
CacheCall(op, k, v, ret, ev, panics) ==
    [Call(op, k, v, ret) EXCEPT !.ev = ev, !.cb = Invoked(ev), !.panic = panics]

\* ----------------------------------------------------------------- FIFO
\* fifo::Cache::add that makes room only once the cache is over its size
fifo_add_evicts_late(m, k, v, cbp) ==
    IF contains_key(m, k)
    THEN With(get_mut(m, k, v), LAMBDA r :
            [m |-> r.m, ret |-> r.ret, ev |-> <<>>, panic |-> FALSE])
    ELSE With(IF len(m) > max_size THEN pop_back(m) ELSE [m |-> m, ret |-> NoneV],
              LAMBDA e :
            IF Invoked(e.ret) # <<>> /\ cbp
            THEN [m |-> e.m, ret |-> NoneV, ev |-> e.ret, panic |-> TRUE]
            ELSE [m |-> push_front(e.m, k, v).m, ret |-> NoneV, ev |-> e.ret,
                  panic |-> FALSE])

\* fifo::Cache::add that moves an overwritten entry to the front
fifo_add_promotes(m, k, v, cbp) ==
    IF contains_key(m, k)
    THEN With(get_mut(m, k, v), LAMBDA r :
            [m |-> move_to_front(r.m, k).m, ret |-> r.ret, ev |-> <<>>,
             panic |-> FALSE])
    ELSE With(IF len(m) + 1 > max_size THEN pop_back(m) ELSE [m |-> m, ret |-> NoneV],
              LAMBDA e :
            IF Invoked(e.ret) # <<>> /\ cbp
            THEN [m |-> e.m, ret |-> NoneV, ev |-> e.ret, panic |-> TRUE]
            ELSE [m |-> push_front(e.m, k, v).m, ret |-> NoneV, ev |-> e.ret,
                  panic |-> FALSE])

\* fifo::Cache::add that invokes the callback on the back entry before
\* unlinking it
fifo_add_callback_first(m, k, v, cbp) ==
    IF contains_key(m, k)
    THEN With(get_mut(m, k, v), LAMBDA r :
            [m |-> r.m, ret |-> r.ret, ev |-> <<>>, panic |-> FALSE])
    ELSE With(IF len(m) + 1 > max_size THEN pop_back(m) ELSE [m |-> m, ret |-> NoneV],
              LAMBDA e :
            IF Invoked(e.ret) # <<>> /\ cbp
            THEN [m |-> m, ret |-> NoneV, ev |-> e.ret, panic |-> TRUE]
            ELSE [m |-> push_front(e.m, k, v).m, ret |-> NoneV, ev |-> e.ret,
                  panic |-> FALSE])

\* fifo::Cache::add; cbp: the callback panics when invoked
fifo_add(m, k, v, cbp) ==
    IF contains_key(m, k)
    THEN With(get_mut(m, k, v), LAMBDA r :
            [m |-> r.m, ret |-> r.ret, ev |-> <<>>, panic |-> FALSE])
    ELSE With(IF len(m) + 1 > max_size THEN pop_back(m) ELSE [m |-> m, ret |-> NoneV],
              LAMBDA e :
            IF Invoked(e.ret) # <<>> /\ cbp
            THEN [m |-> e.m, ret |-> NoneV, ev |-> e.ret, panic |-> TRUE]
            ELSE [m |-> push_front(e.m, k, v).m, ret |-> NoneV, ev |-> e.ret,
                  panic |-> FALSE])

Fifo_add ==
    /\ IsCache("fifo")
    /\ \E k \in Keys, v \in Vals, cbp \in BOOLEAN :
          \E r \in {fifo_add(l_map, k, v, cbp)} :
          /\ cbp => Invoked(r.ev) # <<>>
          /\ l_map' = r.m
          /\ last' = CacheCall("add", k, v, r.ret, r.ev, r.panic)
    /\ Keep({"l_map"})

Fifo_get ==
    /\ IsCache("fifo")
    /\ hit_count + miss_count < MaxCount
    /\ \E k \in Keys :
          /\ last' = Call("get", k, 0, get(l_map, k))
          /\ hit_count' = IF get(l_map, k) # NoneV THEN hit_count + 1 ELSE hit_count
          /\ miss_count' = IF get(l_map, k) # NoneV THEN miss_count ELSE miss_count + 1
    /\ Keep({"counts"})

Fifo_peek ==
    /\ IsCache("fifo")
    /\ \E k \in Keys : last' = Call("peek", k, 0, get(l_map, k))
    /\ Keep({})

\* contains_key of the FIFO and the LRU cache
Cache_contains_key ==
    /\ IsCache("fifo") \/ IsCache("lru")
    /\ \E k \in Keys : last' = Call("contains_key", k, 0, contains_key(l_map, k))
    /\ Keep({})

\* remove of the FIFO and the LRU cache
Cache_remove ==
    /\ IsCache("fifo") \/ IsCache("lru")
    /\ \E k \in Keys :
          \E r \in {remove(l_map, k)} :
          /\ l_map' = r.m
          /\ last' = Call("remove", k, 0, r.ret)
    /\ Keep({"l_map"})

\* remove_entry of the FIFO and the LRU cache
Cache_remove_entry ==
    /\ IsCache("fifo") \/ IsCache("lru")
    /\ \E k \in Keys :
          \E r \in {remove_entry(l_map, k)} :
          /\ l_map' = r.m
          /\ last' = Call("remove_entry", k, 0, r.ret)
    /\ Keep({"l_map"})

\* purge of the FIFO and the LRU cache
Cache_purge ==
    /\ IsCache("fifo") \/ IsCache("lru")
    /\ \E r \in {clear(l_map)} :
          /\ l_map' = r.m
          /\ Released("purge", r)
    /\ Keep({"l_map"})

\* shrink_to_fit of the FIFO and the LRU cache
Cache_shrink_to_fit ==
    /\ IsCache("fifo") \/ IsCache("lru")
    /\ \E r \in {shrink_to_fit(l_map)} :
          /\ l_map' = r.m
          /\ Released("shrink_to_fit", r)
    /\ Keep({"l_map"})

\* dropping a FIFO or LRU cache drops its l_map
Cache_drop ==
    /\ IsCache("fifo") \/ IsCache("lru")
    /\ \E r \in {drop(l_map)} :
          /\ l_map' = r.m
          /\ Released("drop", r)
    /\ Keep({"l_map"})

\* set_eviction_callback of every cache
Cache_set_eviction_callback ==
    /\ kind # "map" /\ Alive
    /\ callback' = TRUE
    /\ last' = Call("set_eviction_callback", 0, 0, NoneV)
    /\ Keep({"callback"})

\* ------------------------------------------------------------------ LRU
\* lru::Cache::get that looks the key up without moving it
lru_get_in_place(m, k) == [m |-> m, ret |-> get(m, k)]

lru_get(m, k) ==
    IF contains_key(m, k)
    THEN With(move_to_front(m, k), LAMBDA r : [m |-> r.m, ret |-> get(r.m, k)])
    ELSE [m |-> m, ret |-> NoneV]

\* lru::Cache::add that makes room at the front of the list
lru_add_evicts_front(m, k, v, cbp) ==
    IF contains_key(m, k)
    THEN With(get_mut(m, k, v), LAMBDA r :
            [m |-> move_to_front(r.m, k).m, ret |-> r.ret, ev |-> <<>>,
             panic |-> FALSE])
    ELSE With(push_back(m, k, v).m, LAMBDA p :
            IF len(p) > max_size
            THEN With(pop_front(p), LAMBDA e :
                    [m |-> move_to_front(e.m, k).m, ret |-> NoneV, ev |-> e.ret,
                     panic |-> Invoked(e.ret) # <<>> /\ cbp])
            ELSE [m |-> move_to_front(p, k).m, ret |-> NoneV, ev |-> <<>>,
                  panic |-> FALSE])

\* lru::Cache::add; cbp: the callback panics when invoked
lru_add(m, k, v, cbp) ==
    IF contains_key(m, k)
    THEN With(get_mut(m, k, v), LAMBDA r :
            [m |-> move_to_front(r.m, k).m, ret |-> r.ret, ev |-> <<>>,
             panic |-> FALSE])
    ELSE With(push_front(m, k, v).m, LAMBDA p :
            IF len(p) > max_size
            THEN With(pop_back(p), LAMBDA e :
                    [m |-> e.m, ret |-> NoneV, ev |-> e.ret,
                     panic |-> Invoked(e.ret) # <<>> /\ cbp])
            ELSE [m |-> p, ret |-> NoneV, ev |-> <<>>, panic |-> FALSE])

Lru_add ==
    /\ IsCache("lru")
    /\ \E k \in Keys, v \in Vals, cbp \in BOOLEAN :
          \E r \in {lru_add(l_map, k, v, cbp)} :
          /\ cbp => Invoked(r.ev) # <<>>
          /\ l_map' = r.m
          /\ last' = CacheCall("add", k, v, r.ret, r.ev, r.panic)
    /\ Keep({"l_map"})

Lru_get ==
    /\ IsCache("lru")
    /\ \E k \in Keys :
          \E r \in {lru_get(l_map, k)} :
          /\ l_map' = r.m
          /\ last' = Call("get", k, 0, r.ret)
    /\ Keep({"l_map"})

\* lru::Cache::peek that moves the entry it finds to the front
Lru_peek_promotes ==
    /\ IsCache("lru")
    /\ \E k \in Keys :
          \E r \in {lru_get(l_map, k)} :
          /\ l_map' = r.m
          /\ last' = Call("peek", k, 0, r.ret)
    /\ Keep({"l_map"})

Lru_peek ==
    /\ IsCache("lru")
    /\ \E k \in Keys : last' = Call("peek", k, 0, get(l_map, k))
    /\ Keep({})

FifoNext ==
    \/ Fifo_add \/ Fifo_get \/ Fifo_peek

LruNext ==
    \/ Lru_add \/ Lru_get \/ Lru_peek

FifoLruNext ==
    \/ FifoNext \/ LruNext
    \/ Cache_contains_key \/ Cache_remove \/ Cache_remove_entry
    \/ Cache_purge \/ Cache_shrink_to_fit \/ Cache_drop
    \/ Cache_set_eviction_callback

\* a FIFO or an LRU cache
InitFifoLru == InitKind({"fifo", "lru"}) /\ rt = RtOff

SpecFifoLru == InitFifoLru /\ [][FifoLruNext]_vars

\* ----------------------------------------------------------------- SLRU
\* slru::Cache::ensure_space without the demotion: main keeps its tail
slru_no_demote(i, mn, promoted) == [in_ |-> i, main |-> mn]

\* slru::Cache::ensure_space whose demotion drops the tail of main
slru_demote_drops(i, mn, promoted) ==
    IF promoted /\ len(mn) >= max_size_main
    THEN [in_ |-> i, main |-> pop_back(mn).m]
    ELSE [in_ |-> i, main |-> mn]

\* slru::Cache::ensure_space on the segments i (in_) and mn (main):
\* the entry main gives back to in_ when a promotion finds main full
slru_demote(i, mn, promoted) ==
    IF promoted /\ len(mn) >= max_size_main
    THEN With(pop_back(mn), LAMBDA d :
            [in_ |-> IF d.ret # NoneV THEN push_front(i, d.ret[1][1], d.ret[1][2]).m
                     ELSE i,
             main |-> d.m])
    ELSE [in_ |-> i, main |-> mn]

\* slru::Cache::ensure_space that makes room at the back of main when main
\* has an entry
slru_ensure_space_evicts_main(i, mn, promoted) ==
    With(slru_demote(i, mn, promoted), LAMBDA s :
        IF len(s.in_) + len(s.main) < max_size
        THEN [in_ |-> s.in_, main |-> s.main, ev |-> <<>>]
        ELSE IF len(s.main) > 0
             THEN With(pop_back(s.main), LAMBDA e :
                     [in_ |-> s.in_, main |-> e.m, ev |-> e.ret])
             ELSE With(pop_back(s.in_), LAMBDA e :
                     [in_ |-> e.m, main |-> s.main, ev |-> e.ret]))

\* slru::Cache::ensure_space; ev: the pair handed to the callback
slru_ensure_space(i, mn, promoted) ==
    With(slru_demote(i, mn, promoted), LAMBDA s :
    With(len(s.in_), LAMBDA in_len :
    With(len(s.main), LAMBDA main_len :
        IF in_len + main_len < max_size
        THEN [in_ |-> s.in_, main |-> s.main, ev |-> <<>>]
        ELSE IF in_len > 0 /\ (in_len > max_size_in \/ (in_len = max_size_in /\ ~promoted))
             THEN With(pop_back(s.in_), LAMBDA e :
                     [in_ |-> e.m, main |-> s.main, ev |-> e.ret])
             ELSE [in_ |-> s.in_, main |-> s.main, ev |-> <<>>])))

\* slru::Cache::get that counts a hit only for a key found in main
slru_get_counts_main(i, mn, k, cbp) ==
    IF contains_key(mn, k)
    THEN With(move_to_front(mn, k), LAMBDA r :
            [in_ |-> i, main |-> r.m, ret |-> get(r.m, k), ev |-> <<>>,
             panic |-> FALSE, hit |-> TRUE])
    ELSE With(remove_entry(i, k), LAMBDA r :
            IF r.ret # NoneV
            THEN With(slru_ensure_space(r.m, mn, TRUE), LAMBDA es :
                    With(push_front(es.main, r.ret[1][1], r.ret[1][2]).m, LAMBDA p :
                        [in_ |-> es.in_, main |-> p, ret |-> get(p, k),
                         ev |-> es.ev, panic |-> FALSE, hit |-> FALSE]))
            ELSE [in_ |-> i, main |-> mn, ret |-> NoneV, ev |-> <<>>,
                  panic |-> FALSE, hit |-> FALSE])

\* slru::Cache::get; hit: which counter is incremented; cbp: the callback
\* panics when invoked
slru_get(i, mn, k, cbp) ==
    IF contains_key(mn, k)
    THEN With(move_to_front(mn, k), LAMBDA r :
            [in_ |-> i, main |-> r.m, ret |-> get(r.m, k), ev |-> <<>>,
             panic |-> FALSE, hit |-> TRUE])
    ELSE With(remove_entry(i, k), LAMBDA r :
            IF r.ret # NoneV
            THEN With(slru_ensure_space(r.m, mn, TRUE), LAMBDA es :
                    IF Invoked(es.ev) # <<>> /\ cbp
                    THEN [in_ |-> es.in_, main |-> es.main, ret |-> NoneV,
                          ev |-> es.ev, panic |-> TRUE, hit |-> TRUE]
                    ELSE With(push_front(es.main, r.ret[1][1], r.ret[1][2]).m, LAMBDA p :
                            [in_ |-> es.in_, main |-> p, ret |-> get(p, k),
                             ev |-> es.ev, panic |-> FALSE, hit |-> TRUE]))
            ELSE [in_ |-> i, main |-> mn, ret |-> NoneV, ev |-> <<>>,
                  panic |-> FALSE, hit |-> FALSE])

\* slru::Cache::add that returns the value it replaces when it promotes a
\* key from in_
slru_add_returns_old(i, mn, k, v, cbp) ==
    IF contains_key(mn, k)
    THEN With(get_mut(mn, k, v), LAMBDA r :
            [in_ |-> i, main |-> move_to_front(r.m, k).m, ret |-> r.ret,
             ev |-> <<>>, panic |-> FALSE])
    ELSE With(remove_entry(i, k), LAMBDA r :
            IF r.ret # NoneV
            THEN With(slru_ensure_space(r.m, mn, TRUE), LAMBDA es :
                    [in_ |-> es.in_, main |-> push_front(es.main, k, v).m,
                     ret |-> Some(r.ret[1][2]), ev |-> es.ev, panic |-> FALSE])
            ELSE With(slru_ensure_space(i, mn, FALSE), LAMBDA es :
                    IF Invoked(es.ev) # <<>> /\ cbp
                    THEN [in_ |-> es.in_, main |-> es.main, ret |-> NoneV,
                          ev |-> es.ev, panic |-> TRUE]
                    ELSE [in_ |-> push_front(es.in_, k, v).m, main |-> es.main,
                          ret |-> NoneV, ev |-> es.ev, panic |-> FALSE]))

\* slru::Cache::add
slru_add(i, mn, k, v, cbp) ==
    IF contains_key(mn, k)
    THEN With(get_mut(mn, k, v), LAMBDA r :
            [in_ |-> i, main |-> move_to_front(r.m, k).m, ret |-> r.ret,
             ev |-> <<>>, panic |-> FALSE])
    ELSE With(remove_entry(i, k), LAMBDA r :
            IF r.ret # NoneV
            THEN With(slru_ensure_space(r.m, mn, TRUE), LAMBDA es :
                    IF Invoked(es.ev) # <<>> /\ cbp
                    THEN [in_ |-> es.in_, main |-> es.main, ret |-> NoneV,
                          ev |-> es.ev, panic |-> TRUE]
                    ELSE [in_ |-> es.in_, main |-> push_front(es.main, k, v).m,
                          ret |-> NoneV, ev |-> es.ev, panic |-> FALSE])
            ELSE With(slru_ensure_space(i, mn, FALSE), LAMBDA es :
                    IF Invoked(es.ev) # <<>> /\ cbp
                    THEN [in_ |-> es.in_, main |-> es.main, ret |-> NoneV,
                          ev |-> es.ev, panic |-> TRUE]
                    ELSE [in_ |-> push_front(es.in_, k, v).m, main |-> es.main,
                          ret |-> NoneV, ev |-> es.ev, panic |-> FALSE]))

\* slru::Cache::remove
slru_remove(i, mn, k) ==
    With(remove(mn, k), LAMBDA r :
        IF r.ret # NoneV THEN [in_ |-> i, main |-> r.m, ret |-> TRUE]
        ELSE With(remove(i, k), LAMBDA r2 :
                [in_ |-> r2.m, main |-> mn, ret |-> r2.ret # NoneV]))

\* peek of the SLRU and the 2Q cache
seg_peek(i, mn, k) == IF get(mn, k) # NoneV THEN get(mn, k) ELSE get(i, k)

\* contains_key of the SLRU and the 2Q cache
seg_contains_key(i, mn, k) == contains_key(mn, k) \/ contains_key(i, k)

\* len of the SLRU and the 2Q cache
seg_len(i, mn) == len(mn) + len(i)

Slru_get ==
    /\ IsCache("slru")
    /\ hit_count + miss_count < MaxCount
    /\ \E k \in Keys, cbp \in BOOLEAN :
          \E r \in {slru_get(in_, main, k, cbp)} :
          /\ cbp => Invoked(r.ev) # <<>>
          /\ in_' = r.in_ /\ main' = r.main /\ out' = out
          /\ hit_count' = IF r.hit THEN hit_count + 1 ELSE hit_count
          /\ miss_count' = IF r.hit THEN miss_count ELSE miss_count + 1
          /\ last' = CacheCall("get", k, 0, r.ret, r.ev, r.panic)
    /\ Keep({"segs", "counts"})

Slru_add ==
    /\ IsCache("slru")
    /\ \E k \in Keys, v \in Vals, cbp \in BOOLEAN :
          \E r \in {slru_add(in_, main, k, v, cbp)} :
          /\ cbp => Invoked(r.ev) # <<>>
          /\ in_' = r.in_ /\ main' = r.main /\ out' = out
          /\ last' = CacheCall("add", k, v, r.ret, r.ev, r.panic)
    /\ Keep({"segs"})

Slru_remove ==
    /\ IsCache("slru")
    /\ \E k \in Keys :
          \E r \in {slru_remove(in_, main, k)} :
          /\ in_' = r.in_ /\ main' = r.main /\ out' = out
          /\ last' = Call("remove", k, 0, r.ret)
    /\ Keep({"segs"})

\* peek of the SLRU and the 2Q cache
Seg_peek ==
    /\ IsCache("slru") \/ IsCache("q2")
    /\ \E k \in Keys : last' = Call("peek", k, 0, seg_peek(in_, main, k))
    /\ Keep({})

\* contains_key of the SLRU and the 2Q cache
Seg_contains_key ==
    /\ IsCache("slru") \/ IsCache("q2")
    /\ \E k \in Keys : last' = Call("contains_key", k, 0, seg_contains_key(in_, main, k))
    /\ Keep({})

\* the effects of releasing nodes in several maps, one after the other
Both(a, b) ==
    [dropped |-> a.dropped + b.dropped, stale |-> a.stale + b.stale,
     panic |-> a.panic \/ b.panic]

Slru_purge ==
    /\ IsCache("slru")
    /\ LET a == clear(main)
           b == clear(in_)
       IN  /\ main' = a.m /\ in_' = b.m /\ out' = out
           /\ Released("purge", Both(a, b))
    /\ Keep({"segs"})

Slru_shrink_to_fit ==
    /\ IsCache("slru")
    /\ LET a == shrink_to_fit(in_)
           b == shrink_to_fit(main)
       IN  /\ in_' = a.m /\ main' = b.m /\ out' = out
           /\ Released("shrink_to_fit", Both(a, b))
    /\ Keep({"segs"})

\* dropping an SLRU or 2Q cache drops its maps
Seg_drop ==
    /\ IsCache("slru") \/ IsCache("q2")
    /\ LET a == drop(in_)
           b == drop(out)
           c == drop(main)
       IN  /\ in_' = a.m /\ out' = b.m /\ main' = c.m
           /\ Released("drop", Both(a, Both(b, c)))
    /\ Keep({"segs"})

SlruNext ==
    \/ Slru_get \/ Slru_add \/ Slru_remove \/ Slru_purge \/ Slru_shrink_to_fit

\* ------------------------------------------------------------------- 2Q
\* q2::Cache::ensure_space that makes room only once the cache is over its
\* size
q2_ensure_space_late(i, mn, o, recent_evict) ==
    With(len(i), LAMBDA in_len :
    With(len(mn), LAMBDA main_len :
        IF in_len + main_len <= max_size
        THEN [in_ |-> i, main |-> mn, out |-> o, ev |-> <<>>, panic |-> FALSE]
        ELSE IF in_len > 0
                /\ (in_len > max_size_in \/ (in_len = max_size_in /\ ~recent_evict))
             THEN With(pop_back(i), LAMBDA e :
                     [in_ |-> e.m, main |-> mn,
                      out |-> push_front(o, finish(hash_builder, e.ret[1][1]), Unit).m,
                      ev |-> e.ret, panic |-> FALSE])
             ELSE With(pop_back(mn), LAMBDA e :
                     [in_ |-> i, main |-> e.m, out |-> o, ev |-> e.ret,
                      panic |-> e.ret = NoneV])))

\* q2::Cache::ensure_space that takes every call for one without a recent
\* eviction
q2_ensure_space_not_recent(i, mn, o, recent_evict) ==
    With(len(i), LAMBDA in_len :
    With(len(mn), LAMBDA main_len :
        IF in_len + main_len < max_size
        THEN [in_ |-> i, main |-> mn, out |-> o, ev |-> <<>>, panic |-> FALSE]
        ELSE IF in_len > 0 /\ in_len >= max_size_in
             THEN With(pop_back(i), LAMBDA e :
                     With(IF len(o) + 1 > max_size_out THEN pop_back(o).m ELSE o,
                          LAMBDA o1 :
                             [in_ |-> e.m, main |-> mn,
                              out |-> push_front(o1, finish(hash_builder, e.ret[1][1]),
                                                 Unit).m,
                              ev |-> e.ret, panic |-> FALSE]))
             ELSE With(pop_back(mn), LAMBDA e :
                     [in_ |-> i, main |-> e.m, out |-> o, ev |-> e.ret,
                      panic |-> e.ret = NoneV])))

\* q2::Cache::ensure_space that pops in_ without asking whether it holds an
\* entry
q2_ensure_space_unguarded(i, mn, o, recent_evict) ==
    With(len(i), LAMBDA in_len :
    With(len(mn), LAMBDA main_len :
        IF in_len + main_len < max_size
        THEN [in_ |-> i, main |-> mn, out |-> o, ev |-> <<>>, panic |-> FALSE]
        ELSE IF in_len > max_size_in \/ (in_len = max_size_in /\ ~recent_evict)
             THEN With(pop_back(i), LAMBDA e :
                     IF e.ret = NoneV
                     THEN [in_ |-> i, main |-> mn, out |-> o, ev |-> <<>>,
                           panic |-> TRUE]
                     ELSE With(IF len(o) + 1 > max_size_out THEN pop_back(o).m ELSE o,
                               LAMBDA o1 :
                             [in_ |-> e.m, main |-> mn,
                              out |-> push_front(o1, finish(hash_builder, e.ret[1][1]),
                                                 Unit).m,
                              ev |-> e.ret, panic |-> FALSE]))
             ELSE With(pop_back(mn), LAMBDA e :
                     [in_ |-> i, main |-> e.m, out |-> o, ev |-> e.ret,
                      panic |-> e.ret = NoneV])))

\* q2::Cache::ensure_space on the segments i (in_), mn (main) and o (out);
\* panic: an unwrap met None
q2_ensure_space(i, mn, o, recent_evict) ==
    With(len(i), LAMBDA in_len :
    With(len(mn), LAMBDA main_len :
        IF in_len + main_len < max_size
        THEN [in_ |-> i, main |-> mn, out |-> o, ev |-> <<>>, panic |-> FALSE]
        ELSE IF in_len > 0
                /\ (in_len > max_size_in \/ (in_len = max_size_in /\ ~recent_evict))
             THEN With(pop_back(i), LAMBDA e :
                     IF e.ret = NoneV
                     THEN [in_ |-> i, main |-> mn, out |-> o, ev |-> <<>>,
                           panic |-> TRUE]
                     ELSE With(IF len(o) + 1 > max_size_out THEN pop_back(o).m ELSE o,
                               LAMBDA o1 :
                             [in_ |-> e.m, main |-> mn,
                              out |-> push_front(o1, finish(hash_builder, e.ret[1][1]),
                                                 Unit).m,
                              ev |-> e.ret, panic |-> FALSE]))
             ELSE With(pop_back(mn), LAMBDA e :
                     [in_ |-> i, main |-> e.m, out |-> o, ev |-> e.ret,
                      panic |-> e.ret = NoneV])))

\* q2::Cache::get that serves a key of in_ where it is
q2_get_stays_in(i, mn, k) ==
    IF contains_key(mn, k)
    THEN With(move_to_front(mn, k), LAMBDA r :
            [in_ |-> i, main |-> r.m, ret |-> get(r.m, k), hit |-> TRUE])
    ELSE IF contains_key(i, k)
         THEN With(move_to_front(i, k), LAMBDA r :
                 [in_ |-> r.m, main |-> mn, ret |-> get(r.m, k), hit |-> TRUE])
         ELSE [in_ |-> i, main |-> mn, ret |-> NoneV, hit |-> FALSE]

\* q2::Cache::get
q2_get(i, mn, k) ==
    IF contains_key(mn, k)
    THEN With(move_to_front(mn, k), LAMBDA r :
            [in_ |-> i, main |-> r.m, ret |-> get(r.m, k), hit |-> TRUE])
    ELSE With(remove_entry(i, k), LAMBDA r :
            IF r.ret # NoneV
            THEN With(push_front(mn, r.ret[1][1], r.ret[1][2]).m, LAMBDA p :
                    [in_ |-> r.m, main |-> p, ret |-> get(p, k), hit |-> TRUE])
            ELSE [in_ |-> i, main |-> mn, ret |-> NoneV, hit |-> FALSE])

\* q2::Cache::add that admits every new key to in_
q2_add_ignores_out(i, mn, o, k, v, cbp) ==
    IF contains_key(mn, k)
    THEN With(get_mut(mn, k, v), LAMBDA r :
            [in_ |-> i, main |-> move_to_front(r.m, k).m, out |-> o,
             ret |-> r.ret, ev |-> <<>>, panic |-> FALSE])
    ELSE With(remove(i, k), LAMBDA r :
            IF r.ret # NoneV
            THEN [in_ |-> r.m, main |-> push_front(mn, k, v).m, out |-> o,
                  ret |-> r.ret, ev |-> <<>>, panic |-> FALSE]
            ELSE With(q2_ensure_space(i, mn, o, FALSE), LAMBDA es :
                    IF es.panic \/ (Invoked(es.ev) # <<>> /\ cbp)
                    THEN [in_ |-> es.in_, main |-> es.main, out |-> es.out,
                          ret |-> NoneV, ev |-> es.ev, panic |-> TRUE]
                    ELSE [in_ |-> push_front(es.in_, k, v).m, main |-> es.main,
                          out |-> es.out, ret |-> NoneV, ev |-> es.ev,
                          panic |-> FALSE]))

\* q2::Cache::add that leaves a promoted key in in_ as well
q2_add_keeps_in(i, mn, o, k, v, cbp) ==
    IF contains_key(mn, k)
    THEN With(get_mut(mn, k, v), LAMBDA r :
            [in_ |-> i, main |-> move_to_front(r.m, k).m, out |-> o,
             ret |-> r.ret, ev |-> <<>>, panic |-> FALSE])
    ELSE With(get(i, k), LAMBDA held :
            IF held # NoneV
            THEN [in_ |-> i, main |-> push_front(mn, k, v).m, out |-> o,
                  ret |-> held, ev |-> <<>>, panic |-> FALSE]
            ELSE With(remove(o, finish(hash_builder, k)), LAMBDA g :
                 With(q2_ensure_space(i, mn, g.m, g.ret # NoneV), LAMBDA es :
                    IF es.panic \/ (Invoked(es.ev) # <<>> /\ cbp)
                    THEN [in_ |-> es.in_, main |-> es.main, out |-> es.out,
                          ret |-> NoneV, ev |-> es.ev, panic |-> TRUE]
                    ELSE IF g.ret # NoneV
                         THEN [in_ |-> es.in_, main |-> push_front(es.main, k, v).m,
                               out |-> es.out, ret |-> NoneV, ev |-> es.ev,
                               panic |-> FALSE]
                         ELSE [in_ |-> push_front(es.in_, k, v).m, main |-> es.main,
                               out |-> es.out, ret |-> NoneV, ev |-> es.ev,
                               panic |-> FALSE])))

\* q2::Cache::add; panic: an unwrap of ensure_space failed, or the callback
\* panicked
q2_add(i, mn, o, k, v, cbp) ==
    IF contains_key(mn, k)
    THEN With(get_mut(mn, k, v), LAMBDA r :
            [in_ |-> i, main |-> move_to_front(r.m, k).m, out |-> o,
             ret |-> r.ret, ev |-> <<>>, panic |-> FALSE])
    ELSE With(remove(i, k), LAMBDA r :
            IF r.ret # NoneV
            THEN [in_ |-> r.m, main |-> push_front(mn, k, v).m, out |-> o,
                  ret |-> r.ret, ev |-> <<>>, panic |-> FALSE]
            ELSE With(remove(o, finish(hash_builder, k)), LAMBDA g :
                 With(q2_ensure_space(i, mn, g.m, g.ret # NoneV), LAMBDA es :
                    IF es.panic \/ (Invoked(es.ev) # <<>> /\ cbp)
                    THEN [in_ |-> es.in_, main |-> es.main, out |-> es.out,
                          ret |-> NoneV, ev |-> es.ev, panic |-> TRUE]
                    ELSE IF g.ret # NoneV
                         THEN [in_ |-> es.in_, main |-> push_front(es.main, k, v).m,
                               out |-> es.out, ret |-> NoneV, ev |-> es.ev,
                               panic |-> FALSE]
                         ELSE [in_ |-> push_front(es.in_, k, v).m, main |-> es.main,
                               out |-> es.out, ret |-> NoneV, ev |-> es.ev,
                               panic |-> FALSE])))

\* q2::Cache::remove that leaves out alone
q2_remove_keeps_ghost(i, mn, o, k) ==
    With(remove(mn, k), LAMBDA r :
        IF r.ret # NoneV THEN [in_ |-> i, main |-> r.m, out |-> o, ret |-> r.ret]
        ELSE With(remove(i, k), LAMBDA r2 :
                [in_ |-> r2.m, main |-> mn, out |-> o, ret |-> r2.ret]))

\* q2::Cache::remove
q2_remove(i, mn, o, k) ==
    With(remove(o, finish(hash_builder, k)), LAMBDA g :
    With(remove(mn, k), LAMBDA r :
        IF r.ret # NoneV THEN [in_ |-> i, main |-> r.m, out |-> g.m, ret |-> r.ret]
        ELSE With(remove(i, k), LAMBDA r2 :
                [in_ |-> r2.m, main |-> mn, out |-> g.m, ret |-> r2.ret])))

Q2_get ==
    /\ IsCache("q2")
    /\ hit_count + miss_count < MaxCount
    /\ \E k \in Keys :
          \E r \in {q2_get(in_, main, k)} :
          /\ in_' = r.in_ /\ main' = r.main /\ out' = out
          /\ hit_count' = IF r.hit THEN hit_count + 1 ELSE hit_count
          /\ miss_count' = IF r.hit THEN miss_count ELSE miss_count + 1
          /\ last' = Call("get", k, 0, r.ret)
    /\ Keep({"segs", "counts"})

Q2_add ==
    /\ IsCache("q2")
    /\ \E k \in Keys, v \in Vals, cbp \in BOOLEAN :
          \E r \in {q2_add(in_, main, out, k, v, cbp)} :
          /\ cbp => Invoked(r.ev) # <<>>
          /\ in_' = r.in_ /\ main' = r.main /\ out' = r.out
          /\ last' = CacheCall("add", k, v, r.ret, r.ev, r.panic)
    /\ Keep({"segs"})

\* q2::Cache::add with one key more than Keys: with max_size = 2 that leaves
\* two keys outside a full cache
WideKeys == 1 .. (MaxKey + 1)

\* q2::Cache::add of any key of WideKeys with one value
Q2_add_plain ==
    /\ IsCache("q2")
    /\ \E k \in WideKeys, cbp \in BOOLEAN :
          \E r \in {q2_add(in_, main, out, k, MaxVal, cbp)} :
          /\ cbp => Invoked(r.ev) # <<>>
          /\ in_' = r.in_ /\ main' = r.main /\ out' = r.out
          /\ last' = CacheCall("add", k, MaxVal, r.ret, r.ev, r.panic)
    /\ Keep({"segs"})

Q2_remove ==
    /\ IsCache("q2")
    /\ \E k \in Keys :
          \E r \in {q2_remove(in_, main, out, k)} :
          /\ in_' = r.in_ /\ main' = r.main /\ out' = r.out
          /\ last' = Call("remove", k, 0, r.ret)
    /\ Keep({"segs"})

Q2_purge ==
    /\ IsCache("q2")
    /\ LET a == clear(main)
           b == clear(in_)
           c == clear(out)
       IN  /\ main' = a.m /\ in_' = b.m /\ out' = c.m
           /\ Released("purge", Both(a, Both(b, c)))
    /\ Keep({"segs"})

Q2_shrink_to_fit ==
    /\ IsCache("q2")
    /\ LET a == shrink_to_fit(in_)
           b == shrink_to_fit(out)
           c == shrink_to_fit(main)
       IN  /\ in_' = a.m /\ out' = b.m /\ main' = c.m
           /\ Released("shrink_to_fit", Both(a, Both(b, c)))
    /\ Keep({"segs"})

Q2Next ==
    \/ Q2_get \/ Q2_add \/ Q2_remove \/ Q2_purge \/ Q2_shrink_to_fit

SegNext ==
    \/ SlruNext \/ Q2Next
    \/ Seg_peek \/ Seg_contains_key \/ Seg_drop

\* ------------------------------------------------------- every object
Init == InitKind({"map", "fifo", "lru", "slru", "q2"}) /\ rt = RtOff

Next == MapNext \/ FifoLruNext \/ SegNext

Spec == Init /\ [][Next]_vars

\* every object, its hasher keeping keys apart, under the calls that put
\* entries in and take them out by key
InitRemoval == Init /\ hash_builder = 0

RemovalNext ==
    \/ Map_push_front \/ Map_push_back \/ Map_remove \/ Map_remove_entry
    \/ Fifo_add \/ Lru_add \/ Cache_remove \/ Cache_remove_entry
    \/ Slru_add \/ Slru_remove
    \/ Q2_add \/ Q2_remove

SpecRemoval == InitRemoval /\ [][RemovalNext]_vars

\* the four caches, their hashers keeping keys apart
InitCaches ==
    /\ InitKind({"fifo", "lru", "slru", "q2"}) /\ rt = RtOff
    /\ hash_builder = 0

\* the four caches without a callback, under peek and the calls that order
\* their entries: add, get and remove (2Q: add and get)
CachesNext ==
    \/ Fifo_add \/ Fifo_peek \/ LruNext \/ Cache_remove
    \/ Slru_add \/ Slru_get \/ Slru_remove
    \/ Q2_add \/ Q2_get
    \/ Seg_peek

SpecCaches == InitCaches /\ [][CachesNext]_vars

\* the four caches with an eviction callback: the callback is installed
\* before the cache is used
EvictNext ==
    \/ Cache_set_eviction_callback
    \/ /\ callback
       /\ \/ FifoNext \/ LruNext
          \/ Cache_remove \/ Cache_remove_entry \/ Cache_purge
          \/ Slru_add \/ Slru_get \/ Slru_remove \/ Slru_purge
          \/ Q2_add \/ Q2_get \/ Q2_remove \/ Q2_purge

SpecEvict == InitCaches /\ [][EvictNext]_vars

\* the four caches with an eviction callback, under add alone
AddNext ==
    \/ Cache_set_eviction_callback
    \/ /\ callback
       /\ \/ Fifo_add \/ Lru_add \/ Slru_add \/ Q2_add

SpecAdd == InitCaches /\ [][AddNext]_vars

\* the four caches without a callback, under the calls that could touch the
\* counters
StatNext ==
    \/ FifoNext \/ LruNext
    \/ Cache_contains_key \/ Cache_remove \/ Cache_purge \/ Cache_shrink_to_fit
    \/ SlruNext \/ Q2_add \/ Q2_get \/ Q2_purge \/ Q2_shrink_to_fit
    \/ Seg_peek \/ Seg_contains_key

SpecStat == InitCaches /\ [][StatNext]_vars

\* an SLRU cache, with or without a callback
InitSlru == InitKind({"slru"}) /\ rt = RtOff

SlruCacheNext ==
    \/ SlruNext \/ Seg_peek \/ Seg_contains_key
    \/ Cache_set_eviction_callback

SpecSlru == InitSlru /\ [][SlruCacheNext]_vars

\* a 2Q cache, its hasher colliding or not, with a callback, under the calls
\* that take a key from in_ to main
InitQ2 == InitKind({"q2"}) /\ rt = RtOff

Q2CacheNext ==
    \/ Cache_set_eviction_callback
    \/ /\ callback
       /\ \/ Q2_add \/ Q2_get

SpecQ2 == InitQ2 /\ [][Q2CacheNext]_vars

\* the (key, value) pairs a cache holds: l_map of a FIFO or LRU cache, main
\* then in_ of an SLRU or 2Q cache
Resident ==
    IF kind \in {"slru", "q2"} THEN Entries(main) \o Entries(in_)
    ELSE Entries(l_map)

\* the index and the list of map m agree: the same keys, each once, in
\* both walks, and every index entry leads to a node of its key
Consistent(m) ==
    /\ KeysOf(Entries(m)) = IndexKeys(m)
    /\ Cardinality(IndexKeys(m)) = Len(Entries(m))
    /\ len(m) = Len(Entries(m))
    /\ EntriesBack(m) = Reverse(Entries(m))
    /\ \A e \in m.map :
          /\ e.node \in DOMAIN m.heap
          /\ m.heap[e.node].k = m.heap[e.key_ptr].k

\* ================================================================ claims
\* ---------------------------------------------------------------- C1
\* C1: after any sequence of ordered-map operations the keys of the hash
\* index are the keys met walking the list head-to-tail and the keys met
\* walking it tail-to-head, each key met exactly once; len() equals the list
\* length and the index size; every index entry points to a node whose key
\* is the index key; is_empty() holds exactly when len() = 0.
C1_IndexMatchesList ==
    LET fwd == Entries(l_map)
        bwd == EntriesBack(l_map)
    IN  /\ KeysOf(fwd) = IndexKeys(l_map)
        /\ KeysOf(bwd) = IndexKeys(l_map)
        /\ Cardinality(KeysOf(fwd)) = Len(fwd)
        /\ Cardinality(KeysOf(bwd)) = Len(bwd)
        /\ len(l_map) = Len(fwd)
        /\ len(l_map) = Len(bwd)
        /\ len(l_map) = Cardinality(IndexKeys(l_map))
        /\ \A e \in l_map.map :
              /\ e.node \in DOMAIN l_map.heap
              /\ l_map.heap[e.node].k = l_map.heap[e.key_ptr].k
        /\ is_empty(l_map) <=> len(l_map) = 0

\* a middle node was removed from a list of three and its shell is kept
C1_Witness ==
    /\ last.op = "remove" /\ last.ret # NoneV
    /\ len(l_map) = 2 /\ l_map.empty_len = 1
    /\ l_map.heap[l_map.head].next = l_map.tail

\* ---------------------------------------------------------------- C2
PushFrontPost(s, k, v, m2, ret) ==
    /\ Entries(m2) = <<<<k, v>>>> \o Without(s, k)
    /\ ret = IF k \in KeysOf(s) THEN Some(s[Pos(s, k)][2]) ELSE NoneV
    /\ Len(Entries(m2)) = Len(s) + (IF k \in KeysOf(s) THEN 0 ELSE 1)
    /\ len(m2) = Len(Entries(m2))

PushBackPost(s, k, v, m2, ret) ==
    /\ Entries(m2) = Without(s, k) \o <<<<k, v>>>>
    /\ ret = IF k \in KeysOf(s) THEN Some(s[Pos(s, k)][2]) ELSE NoneV
    /\ Len(Entries(m2)) = Len(s) + (IF k \in KeysOf(s) THEN 0 ELSE 1)
    /\ len(m2) = Len(Entries(m2))

\* C2: push_front(k,v) turns the head-to-tail sequence s into (k,v) followed
\* by s without k's old entry, returns the old value when k was present and
\* none otherwise, and len grows by one exactly when k was new; push_back
\* is the mirror image at the tail.
C2_PushOrder ==
    [][ /\ last'.op = "push_front" =>
              PushFrontPost(Entries(l_map), last'.k, last'.v, l_map', last'.ret)
        /\ last'.op = "push_back" =>
              PushBackPost(Entries(l_map), last'.k, last'.v, l_map', last'.ret)
      ]_vars

\* push_front replaced the value of a key that was not at the head of a
\* list of three
C2_Witness ==
    /\ last.op = "push_front" /\ last.ret # NoneV /\ last.ret # Some(last.v)
    /\ len(l_map) = 3
    /\ front(l_map) = Some(<<last.k, last.v>>)

\* ---------------------------------------------------------------- C3
\* C3: pop_front() on a non-empty map returns the head's (key, value),
\* removes that key from the index, decreases len by one and leaves the other
\* entries in order; pop_back() does the same for the tail; on an empty map
\* both return none and change no state.
C3_Pop ==
    [][ LET s == Entries(l_map) IN
        /\ last'.op = "pop_front" =>
              IF s = <<>> THEN last'.ret = NoneV /\ l_map' = l_map
              ELSE /\ last'.ret = Some(s[1])
                   /\ ~contains_key(l_map', s[1][1])
                   /\ len(l_map') = len(l_map) - 1
                   /\ Entries(l_map') = Tail(s)
        /\ last'.op = "pop_back" =>
              IF s = <<>> THEN last'.ret = NoneV /\ l_map' = l_map
              ELSE /\ last'.ret = Some(s[Len(s)])
                   /\ ~contains_key(l_map', s[Len(s)][1])
                   /\ len(l_map') = len(l_map) - 1
                   /\ Entries(l_map') = SubSeq(s, 1, Len(s) - 1)
      ]_vars

\* pop_back returned the tail and two entries remain
C3_Witness ==
    /\ last.op = "pop_back" /\ last.ret # NoneV
    /\ len(l_map) = 2 /\ l_map.empty_len >= 1

\* ---------------------------------------------------------------- C4
\* C4: move_to_front(k) with k present returns true and makes k the head
\* with its value unchanged, the other entries keep their order and len is
\* unchanged; with k absent it returns false and changes nothing.
\* move_to_back is symmetric at the tail.
C4_MoveTo ==
    [][ LET s == Entries(l_map)
            k == last'.k
        IN
        /\ last'.op = "move_to_front" =>
              IF k \in KeysOf(s)
              THEN /\ last'.ret = TRUE
                   /\ Entries(l_map') = <<s[Pos(s, k)]>> \o Without(s, k)
                   /\ len(l_map') = len(l_map)
              ELSE last'.ret = FALSE /\ l_map' = l_map
        /\ last'.op = "move_to_back" =>
              IF k \in KeysOf(s)
              THEN /\ last'.ret = TRUE
                   /\ Entries(l_map') = Without(s, k) \o <<s[Pos(s, k)]>>
                   /\ len(l_map') = len(l_map)
              ELSE last'.ret = FALSE /\ l_map' = l_map
      ]_vars

\* move_to_front succeeded on a list of three
C4_Witness ==
    /\ last.op = "move_to_front" /\ last.ret = TRUE
    /\ len(l_map) = 3
    /\ front(l_map)[1][1] = last.k

\* ---------------------------------------------------------------- C5
Removes == {"remove", "remove_entry"}

\* what remove(k) / remove_entry(k) of the key k of entry sequence s returns
Removed(op, s, k) == IF op = "remove" THEN Some(s[Pos(s, k)][2]) ELSE Some(s[Pos(s, k)])

\* C5: remove(k) of a present key returns its value (remove_entry its key
\* and value); afterwards contains_key(k) is false, get(k) is none and the
\* other entries keep their relative order. A remove(k) that immediately
\* follows a remove(k) returns none (false for SLRU) and changes no state.
\* This holds for the ordered map and the FIFO, LRU, SLRU and 2Q caches.
C5_RemovalFinal ==
    [][ last'.op \in Removes =>
        LET k  == last'.k
            s  == Entries(l_map)
            si == Entries(in_)
            sm == Entries(main)
        IN
        /\ (kind \in {"map", "fifo", "lru"} /\ k \in KeysOf(s)) =>
              /\ last'.ret = Removed(last'.op, s, k)
              /\ ~contains_key(l_map', k)
              /\ get(l_map', k) = NoneV
              /\ lru_get(l_map', k).ret = NoneV
              /\ Entries(l_map') = Without(s, k)
              /\ EntriesBack(l_map') = Reverse(Without(s, k))
        /\ (kind \in {"slru", "q2"} /\ k \in KeysOf(si) \cup KeysOf(sm)) =>
              /\ kind = "slru" => last'.ret = TRUE
              /\ kind = "q2" =>
                    last'.ret = IF k \in KeysOf(sm) THEN Removed("remove", sm, k)
                                ELSE Removed("remove", si, k)
              /\ ~seg_contains_key(in_', main', k)
              /\ seg_peek(in_', main', k) = NoneV
              /\ kind = "slru" => slru_get(in_', main', k, FALSE).ret = NoneV
              /\ kind = "q2" => q2_get(in_', main', k).ret = NoneV
              /\ Entries(in_') = Without(si, k)
              /\ Entries(main') = Without(sm, k)
              /\ EntriesBack(in_') = Reverse(Without(si, k))
              /\ EntriesBack(main') = Reverse(Without(sm, k))
        /\ (last.op \in Removes /\ last.k = k) =>
              /\ last'.ret = IF kind = "slru" THEN FALSE ELSE NoneV
              /\ UNCHANGED <<l_map, segs, sizes, counts, hash_builder, callback>>
      ]_vars

\* an SLRU cache held one entry in each segment and the one in main, which
\* a second add had promoted, was removed
C5_Witness ==
    /\ kind = "slru"
    /\ last.op = "remove" /\ last.ret = TRUE
    /\ len(main) = 0 /\ main.empty_len = 1
    /\ len(in_) = 1

\* ---------------------------------------------------------------- C6
\* the keys of an entry sequence, in order
KeyOrder(s) == [i \in 1..Len(s) |-> s[i][1]]

\* C6: get, get_key_value, contains_key, front and back change nothing, and
\* get_mut changes at most the value of the looked-up key: the entry order,
\* len and the freelist stay. get(k) returns the value last stored for k
\* when k is present and none otherwise; front()/back() return the head/tail
\* pair, or none on an empty map.
C6_Lookups ==
    [][ LET s == Entries(l_map)
            k == last'.k
        IN
        /\ last'.op \in {"get", "get_key_value", "contains_key", "front", "back"} =>
              l_map' = l_map
        /\ last'.op = "get" =>
              /\ last'.ret = IF stored[k] = 0 THEN NoneV ELSE Some(stored[k])
              /\ last'.ret = NoneV <=> k \notin KeysOf(s)
        /\ last'.op = "front" => last'.ret = IF s = <<>> THEN NoneV ELSE Some(s[1])
        /\ last'.op = "back" => last'.ret = IF s = <<>> THEN NoneV ELSE Some(s[Len(s)])
        /\ last'.op = "get_mut" =>
              /\ KeyOrder(Entries(l_map')) = KeyOrder(s)
              /\ \A i \in 1..Len(s) : s[i][1] # k => Entries(l_map')[i] = s[i]
              /\ len(l_map') = len(l_map)
              /\ Freelist(l_map') = Freelist(l_map)
              /\ l_map'.empty_len = l_map.empty_len
              /\ DOMAIN l_map'.heap = DOMAIN l_map.heap
      ]_vars

\* get returned a value that differs from the one given to the last push of
\* another key, in a map with two entries and a shell
C6_Witness ==
    /\ last.op = "get" /\ last.ret = Some(2)
    /\ len(l_map) = 2 /\ l_map.empty_len = 1
    /\ back(l_map) = Some(<<last.k, 2>>)

\* ---------------------------------------------------------------- C7
\* C7 as stated: while the observer follows the entry (k, v) of a
\* push_front that left the map with n entries (the key is not touched again;
\* only push_front of other keys, lookups and pop_back follow), get(k)
\* returns v, and a pop_back returns (k, v) exactly when n - 1 other pop_back
\* calls have come before it.
C7_RoundTrip ==
    [][ /\ rt'.k # 0 => get(l_map', rt'.k) = Some(rt'.v)
        /\ rt.k # 0 =>
              /\ (last'.op = "get" /\ last'.k = rt.k) => last'.ret = Some(rt.v)
              /\ last'.op = "pop_back" =>
                    (last'.ret = Some(<<rt.k, rt.v>>) <=> rt.due = 0)
      ]_vars

\* C7, amended: a push_front of a key that sits behind k takes that entry
\* from behind k. With r such calls since the push of k, get(k) returns v
\* and a pop_back returns (k, v) exactly when n - 1 - r other pop_back calls
\* have come before it; with none (r = 0) that is after exactly n - 1.
C7_RoundTripLessMoved ==
    [][ /\ rt'.k # 0 => get(l_map', rt'.k) = Some(rt'.v)
        /\ rt.k # 0 =>
              /\ (last'.op = "get" /\ last'.k = rt.k) => last'.ret = Some(rt.v)
              /\ last'.op = "pop_back" =>
                    (last'.ret = Some(<<rt.k, rt.v>>) <=> rt.due = rt.moved)
      ]_vars

\* the followed entry was returned by the third pop_back after its push
C7_Witness ==
    /\ rt.k = 0 /\ rt.due = -1
    /\ last.op = "pop_back" /\ last.ret # NoneV
    /\ len(l_map) = 0 /\ l_map.empty_len = 3

\* ---------------------------------------------------------------- C8
\* C8: every key and every value handed to push_front/push_back is released
\* exactly once: no call drops a key or value slot whose content was already
\* moved out, and no call overwrites a slot that still holds its content.
C8_ReleasedOnce == last.stale = 0 /\ last.lost = 0

\* ---------------------------------------------------------------- C9
\* C9: clear() returns and leaves len() = 0, is_empty() true, front() and back() none,
\* no key contained, an empty freelist with empty_len = 0, and the map in the
\* state of a freshly constructed one.
C9_ClearIsFresh ==
    last.op = "clear" =>
        /\ ~last.panic /\ ~last.abort
        /\ len(l_map) = 0
        /\ is_empty(l_map)
        /\ front(l_map) = NoneV /\ back(l_map) = NoneV
        /\ \A k \in Keys : ~contains_key(l_map, k)
        /\ l_map.empty = None /\ l_map.empty_len = 0
        /\ l_map = with_hasher

\* --------------------------------------------------------------- C10
\* C10: a FIFO or LRU cache constructed with a requested size m has
\* max_size = max(m, 1) and, after every operation, len() <= max(m, 1).
C10_LenBounded ==
    \E m \in 0..MaxSize :
        LET cap == IF m > 1 THEN m ELSE 1
        IN  max_size = cap /\ len(l_map) <= cap

\* an LRU cache of size one evicted its entry for a new one
C10_Witness ==
    /\ kind = "lru" /\ max_size = 1
    /\ last.op = "add" /\ last.ev # <<>>
    /\ len(l_map) = 1

\* --------------------------------------------------------------- C11
\* C11: an SLRU or 2Q cache of requested size m >= 2 (default factors) has,
\* after every add, get, remove and purge, |in| + |main| <= m, hence
\* |in| <= m and |main| <= m.
C11_SegmentsBounded ==
    kind \in {"slru", "q2"} =>
        \E m \in 2..MaxSize :
            /\ max_size = m
            /\ len(in_) + len(main) <= m
            /\ len(in_) <= m /\ len(main) <= m

\* a full 2Q cache with an entry in each segment took a new key and threw
\* one out
C11_Witness ==
    /\ kind = "q2" /\ last.op = "add" /\ last.ev # <<>>
    /\ len(in_) = 1 /\ len(main) = 1
    /\ len(in_) + len(main) = max_size

\* --------------------------------------------------------------- C12
\* C12: an LRU add(k, v) of an absent key into a full cache (len = max_size)
\* keeps len, removes exactly the back entry and hands that pair to the
\* callback exactly once; into a cache that is not full it evicts nothing.
\* Either way the new entry is the front and the entries kept stay in their
\* order (so 2m adds of distinct keys evict m times and leave the last m).
C12_LruEvictsBack ==
    [][(kind = "lru" /\ last'.op = "add" /\ ~contains_key(l_map, last'.k)) =>
        LET before == Entries(l_map)
            new == <<last'.k, last'.v>>
        IN  /\ last'.ret = NoneV
            /\ IF len(l_map) = max_size
               THEN /\ len(l_map)' = len(l_map)
                    /\ last'.ev = back(l_map)
                    /\ last'.cb = IF callback THEN back(l_map) ELSE <<>>
                    /\ Entries(l_map)' =
                          <<new>> \o SubSeq(before, 1, Len(before) - 1)
               ELSE /\ last'.ev = <<>> /\ last'.cb = <<>>
                    /\ Entries(l_map)' = <<new>> \o before]_vars

\* a full LRU cache of two with a callback took a third key: the callback
\* got the pair that was at the back
C12_Witness ==
    /\ kind = "lru" /\ max_size = 2 /\ callback
    /\ last.op = "add" /\ Len(last.cb) = 1 /\ last.cb = last.ev
    /\ ~last.panic
    /\ \A i \in 1..Len(Entries(l_map)) : Entries(l_map)[i][1] # last.cb[1][1]
    /\ len(l_map) = 2 /\ front(l_map) = Some(<<last.k, last.v>>)

\* --------------------------------------------------------------- C13
\* C13: an LRU get(k) of a resident key returns its value and makes k the
\* front entry, the other entries keeping their order (so if k was the back
\* and len > 1 the back is now another key); add(k, v) of a resident key
\* replaces the value, returns the old one, makes k the front and evicts
\* nothing; get of an absent key returns none and changes no entry.
C13_LruPromotes ==
    [][(kind = "lru" /\ last'.op \in {"get", "add"}) =>
        LET k == last'.k
            before == Entries(l_map)
            old == get(l_map, k)
        IN  /\ (last'.op = "get" /\ old # NoneV) =>
                  /\ last'.ret = old
                  /\ Entries(l_map)' = <<<<k, old[1]>>>> \o Without(before, k)
                  /\ EntriesBack(l_map)' = Reverse(Entries(l_map)')
                  /\ (back(l_map) = Some(<<k, old[1]>>) /\ len(l_map) > 1) =>
                        back(l_map)'[1][1] # k
            /\ (last'.op = "get" /\ old = NoneV) =>
                  /\ last'.ret = NoneV
                  /\ l_map' = l_map
            /\ (last'.op = "add" /\ old # NoneV) =>
                  /\ last'.ret = old
                  /\ Entries(l_map)' = <<<<k, last'.v>>>> \o Without(before, k)
                  /\ EntriesBack(l_map)' = Reverse(Entries(l_map)')
                  /\ len(l_map)' = len(l_map)
                  /\ last'.ev = <<>> /\ last'.cb = <<>> /\ ~last'.panic]_vars

\* get found its key in a full LRU cache of two and left it at the front,
\* the other key at the back
C13_Witness ==
    /\ kind = "lru" /\ max_size = 2
    /\ last.op = "get" /\ last.ret # NoneV
    /\ len(l_map) = 2
    /\ front(l_map) = Some(<<last.k, last.ret[1]>>)
    /\ back(l_map)[1][1] # last.k

\* --------------------------------------------------------------- C14
\* C14: peek(k) on an LRU cache, and likewise on an SLRU and a 2Q cache,
\* returns the value of a resident key (none for an absent one) and changes
\* neither the order nor the segment of any entry; the key the next
\* overflowing add evicts (the back entry of the list, or of the segment
\* ensure_space pops, chosen by the segment lengths) is the same before and
\* after the peek.
C14_PeekIsPure ==
    [][(kind \in {"lru", "slru", "q2"} /\ last'.op = "peek") =>
        LET k == last'.k
            held == IF kind = "lru" THEN Entries(l_map)
                    ELSE Entries(main) \o Entries(in_)
        IN  /\ \A v \in Vals : last'.ret = Some(v) <=> Pos(held, k) # 0 /\ held[Pos(held, k)][2] = v
            /\ last'.ret = NoneV <=> Pos(held, k) = 0
            /\ l_map' = l_map /\ in_' = in_ /\ main' = main /\ out' = out
            /\ UNCHANGED <<sizes, counts, callback>>
            /\ back(l_map)' = back(l_map)
            /\ back(in_)' = back(in_) /\ back(main)' = back(main)
            /\ len(in_)' = len(in_) /\ len(main)' = len(main)]_vars

\* peek found the back key of a full LRU cache of two, and it is the back
\* key still: the next add of a new key evicts it
C14_Witness ==
    /\ kind = "lru" /\ max_size = 2 /\ len(l_map) = 2
    /\ last.op = "peek" /\ last.ret # NoneV
    /\ back(l_map) = Some(<<last.k, last.ret[1]>>)
    /\ \E k \in Keys, v \in Vals :
          lru_add(l_map, k, v, FALSE).ev = Some(<<last.k, last.ret[1]>>)

\* --------------------------------------------------------------- C15
\* C15: a FIFO add(k, v) of a resident key replaces the value in place and
\* returns the old one; the order of the entries is unchanged, nothing is
\* evicted and the callback is not invoked, even when len = max_size.
C15_FifoOverwrites ==
    [][(kind = "fifo" /\ last'.op = "add" /\ contains_key(l_map, last'.k)) =>
        LET k == last'.k
            before == Entries(l_map)
        IN  /\ last'.ret = get(l_map, k)
            /\ Entries(l_map)' =
                  [i \in 1..Len(before) |->
                      IF before[i][1] = k THEN <<k, last'.v>> ELSE before[i]]
            /\ EntriesBack(l_map)' = Reverse(Entries(l_map)')
            /\ len(l_map)' = len(l_map)
            /\ last'.ev = <<>> /\ last'.cb = <<>> /\ ~last'.panic]_vars

\* a full FIFO cache of two with a callback had the value of its back key
\* replaced
C15_Witness ==
    /\ kind = "fifo" /\ max_size = 2 /\ len(l_map) = 2 /\ callback
    /\ last.op = "add" /\ last.ret # NoneV /\ last.ret # Some(last.v)
    /\ back(l_map) = Some(<<last.k, last.v>>)

\* --------------------------------------------------------------- C16
\* C16: the FIFO cache evicts in insertion order. An add of an absent key
\* at len = max_size evicts exactly the back entry (the oldest insertion),
\* hands it to the callback once, and returns with the new key at the
\* front; below max_size it evicts nothing. get, peek and an overwriting add
\* leave the order of the keys, hence the next evicted key, as it was.
C16_FifoOrder ==
    [][(kind = "fifo" /\ last'.op \in {"add", "get", "peek"}) =>
        LET k == last'.k
            before == Entries(l_map)
            keys(s) == [i \in 1..Len(s) |-> s[i][1]]
        IN  IF last'.op = "add" /\ ~contains_key(l_map, k)
            THEN /\ last'.ret = NoneV
                 /\ IF len(l_map) = max_size
                    THEN /\ last'.ev = back(l_map)
                         /\ last'.cb = IF callback THEN back(l_map) ELSE <<>>
                         /\ ~last'.panic =>
                               Entries(l_map)' = <<<<k, last'.v>>>> \o
                                    SubSeq(before, 1, Len(before) - 1)
                    ELSE /\ last'.ev = <<>> /\ last'.cb = <<>> /\ ~last'.panic
                         /\ Entries(l_map)' = <<<<k, last'.v>>>> \o before
            ELSE /\ keys(Entries(l_map)') = keys(before)
                 /\ keys(EntriesBack(l_map)') = Reverse(keys(before))
                 /\ last'.ev = <<>>]_vars

\* a full FIFO cache of two with a callback took a third key: the callback
\* got the oldest pair, the new key is at the front
C16_Witness ==
    /\ kind = "fifo" /\ max_size = 2 /\ len(l_map) = 2 /\ callback
    /\ last.op = "add" /\ Len(last.ev) = 1 /\ last.cb = last.ev /\ ~last.panic
    /\ front(l_map) = Some(<<last.k, last.v>>)
    /\ ~contains_key(l_map, last.ev[1][1])

\* --------------------------------------------------------------- C19
\* C19: an LRU get(k) increments hit_count by one when k is resident and
\* miss_count by one when k is absent, the other counter staying as it was
\* (so stat() reports the gets that returned a value and those that
\* returned none).
C19_LruGetCounts ==
    [][(kind = "lru" /\ last'.op = "get") =>
        IF last'.ret # NoneV
        THEN hit_count' = hit_count + 1 /\ miss_count' = miss_count
        ELSE miss_count' = miss_count + 1 /\ hit_count' = hit_count]_vars

C18_CallbackAfterUnlink ==
    [][(kind # "map" /\ last'.cb # <<>>) =>
        LET before == Resident
            after == Resident'
            k == last'.k
            ek == last'.cb[1][1]
        IN  /\ last'.op = "add" /\ Len(last'.cb) = 1
            /\ \E i \in 1..Len(before) : before[i] = last'.cb[1]
            /\ ek \notin KeysOf(after)
            /\ ~contains_key(l_map', ek)
            /\ ~seg_contains_key(in_', main', ek)
            /\ Consistent(l_map)' /\ Consistent(in_)' /\ Consistent(main)'
            /\ Consistent(out)'
            /\ Len(after) <= max_size
            /\ KeysOf(Entries(in_)') \cap KeysOf(Entries(main)') = {}
            /\ Without(after, k) = Without(before, ek)
            /\ IF last'.panic
               THEN Pos(after, k) # 0 => after[Pos(after, k)] = <<k, last'.v>>
               ELSE Pos(after, k) # 0 /\ after[Pos(after, k)] = <<k, last'.v>>]_vars

\* the callback of a full FIFO cache of two panicked: the oldest entry is
\* out, the new one is not in
C18_Witness ==
    /\ kind = "fifo" /\ max_size = 2
    /\ last.op = "add" /\ last.panic /\ Len(last.cb) = 1
    /\ len(l_map) = 1
    /\ ~contains_key(l_map, last.k)
    /\ ~contains_key(l_map, last.cb[1][1])

GhostNext ==
    \/ Cache_set_eviction_callback
    \/ /\ callback
       /\ \/ Q2_add_plain \/ Q2_remove

SpecGhost == InitQ2 /\ [][GhostNext]_vars

\* a 2Q cache built by with_param_and_hasher with both factors 0.50 and the
\* hasher that keeps keys apart: max_size_in is 1 for max_size 2, so that
\* in_ can hold exactly max_size_in entries in a full cache
EVEN_CF == <<1, 2>>

InitQ2Param ==
    /\ kind = "q2"
    /\ l_map = with_hasher
    /\ in_ = with_hasher /\ main = with_hasher /\ out = with_hasher
    /\ \E size \in 0..MaxSize : max_size = Clamp2(size)
    /\ max_size_in = Scale(max_size, OneMinus(EVEN_CF))
    /\ max_size_main = 0
    /\ max_size_out = Scale(max_size, EVEN_CF)
    /\ hit_count = 0 /\ miss_count = 0
    /\ hash_builder = 0
    /\ callback = FALSE
    /\ last = Call("new", 0, 0, NoneV)
    /\ stored = [k \in Keys |-> 0]
    /\ rt = RtOff

\* with a callback, under add and remove
Q2ParamNext ==
    \/ Cache_set_eviction_callback
    \/ /\ callback
       /\ \/ Q2_add \/ Q2_remove

SpecQ2Param == InitQ2Param /\ [][Q2ParamNext]_vars

\* an SLRU cache with the default factor, or a 2Q cache built by
\* with_param_and_hasher with out factor 1.0 (out has room for two ghosts in
\* a cache of two) and the hasher that keeps keys apart
WHOLE_CF == <<1, 1>>

InitDisjoint ==
    /\ kind \in {"slru", "q2"}
    /\ l_map = with_hasher
    /\ in_ = with_hasher /\ main = with_hasher /\ out = with_hasher
    /\ \E size \in 0..MaxSize : max_size = Clamp2(size)
    /\ max_size_in = Scale(max_size, OneMinus(DEFAULT_MAIN_CF))
    /\ max_size_main = IF kind = "slru" THEN Scale(max_size, DEFAULT_MAIN_CF) ELSE 0
    /\ max_size_out = IF kind = "q2" THEN Scale(max_size, WHOLE_CF) ELSE 0
    /\ hit_count = 0 /\ miss_count = 0
    /\ hash_builder = 0
    /\ callback = FALSE
    /\ last = Call("new", 0, 0, NoneV)
    /\ stored = [k \in Keys |-> 0]
    /\ rt = RtOff

DisjointNext ==
    \/ Slru_add \/ Slru_get \/ Slru_remove \/ Slru_purge
    \/ Q2_add_plain \/ Q2_get \/ Q2_purge

SpecDisjoint == InitDisjoint /\ [][DisjointNext]_vars

\* --------------------------------------------------------------- C21
\* C21: SLRU places a key by its touches. add(k, v) of a key in neither
\* segment returns none and puts it at the front of in_; get(k) or
\* add(k, v) of a key in in_ takes it out of in_ and puts it at the front of
\* main (get returns the value; add stores v and returns none); a touch of
\* a key in main moves it to the front of main (add replaces the value and
\* returns the old one); get of an absent key changes neither segment.
C21_SlruPlacement ==
    [][(kind = "slru" /\ last'.op \in {"add", "get"}) =>
        LET k == last'.k
            op == last'.op
            i == Entries(in_)
            mn == Entries(main)
            inIn == Pos(i, k) # 0
            inMain == Pos(mn, k) # 0
            held == IF inMain THEN mn[Pos(mn, k)][2] ELSE i[Pos(i, k)][2]
            w == IF op = "add" THEN last'.v ELSE held
        IN  /\ (op = "add" /\ ~inIn /\ ~inMain) =>
                  /\ last'.ret = NoneV
                  /\ k \notin KeysOf(Entries(main)')
                  /\ ~last'.panic => front(in_)' = Some(<<k, last'.v>>)
            /\ (op = "get" /\ ~inIn /\ ~inMain) =>
                  /\ last'.ret = NoneV
                  /\ in_' = in_ /\ main' = main
            /\ inIn =>
                  /\ last'.ret = IF op = "get" THEN Some(held) ELSE NoneV
                  /\ k \notin KeysOf(Entries(in_)')
                  /\ front(main)' = Some(<<k, w>>)
            /\ inMain =>
                  /\ last'.ret = Some(held)
                  /\ Entries(main)' = <<<<k, w>>>> \o Without(mn, k)
                  /\ in_' = in_]_vars

\* an add found its key in in_ and put it, with the new value, at the front
\* of main, returning none
C21_Witness ==
    /\ kind = "slru" /\ last.op = "add" /\ last.ret = NoneV
    /\ front(main) = Some(<<last.k, last.v>>)
    /\ ~contains_key(in_, last.k)

\* --------------------------------------------------------------- C22
\* C22: SLRU warm-up. On an empty cache of size m (default factor), adding
\* m distinct keys gives |in| = m and |main| = 0; a get of each of them in
\* insertion order then hits every time, nothing is evicted by any of the
\* calls, and at the end |main| = max_size_main = floor(0.75 m) and
\* |in| = m - max_size_main.
C22_SlruWarmUp ==
    (kind = "slru" /\ Alive /\ len(in_) = 0 /\ len(main) = 0) =>
        \A ks \in [1..max_size -> Keys], vs \in [Keys -> Vals] :
            (\A a, b \in 1..max_size : a # b => ks[a] # ks[b]) =>
                LET RECURSIVE Added(_)
                    Added(n) ==
                        IF n = 0 THEN [in_ |-> in_, main |-> main, ok |-> TRUE]
                        ELSE With(Added(n - 1), LAMBDA s :
                             With(slru_add(s.in_, s.main, ks[n], vs[ks[n]], FALSE),
                                  LAMBDA r :
                                [in_ |-> r.in_, main |-> r.main,
                                 ok |-> s.ok /\ r.ev = <<>> /\ r.ret = NoneV]))
                    RECURSIVE Got(_)
                    Got(n) ==
                        IF n = 0 THEN Added(max_size)
                        ELSE With(Got(n - 1), LAMBDA s :
                             With(slru_get(s.in_, s.main, ks[n], FALSE), LAMBDA r :
                                [in_ |-> r.in_, main |-> r.main,
                                 ok |-> s.ok /\ r.ev = <<>> /\ r.hit
                                        /\ r.ret = Some(vs[ks[n]])]))
                IN  /\ len(Added(max_size).in_) = max_size
                    /\ len(Added(max_size).main) = 0
                    /\ Got(max_size).ok
                    /\ max_size_main = (3 * max_size) \div 4
                    /\ len(Got(max_size).main) = max_size_main
                    /\ len(Got(max_size).in_) = max_size - max_size_main

\* both keys of a cache of two were added and then promoted in turn, the
\* first by a get that hit and the second by an add: the key promoted last
\* is in main and the key promoted first is back in in_
C22_Witness ==
    /\ kind = "slru" /\ max_size = 2
    /\ last.op = "add" /\ last.ret = NoneV /\ last.ev = <<>>
    /\ hit_count = 1 /\ miss_count = 0
    /\ len(main) = max_size_main /\ len(in_) = max_size - max_size_main
    /\ front(main)[1][1] = last.k
    /\ in_.empty_len = 1 /\ main.empty_len = 0

\* --------------------------------------------------------------- C29
\* C29: SLRU demotion. A promotion (get or add of a key in in_) that finds
\* |main| >= max_size_main moves the back entry of main to the front of in_
\* and then pushes the promoted entry at the front of main; nothing is
\* evicted and the callback is not invoked. A promotion leaves
\* |in| + |main| and the set of resident keys unchanged, and
\* |main| <= max_size_main holds after every operation.
C29_SlruDemotion ==
    [][kind = "slru" =>
        /\ len(main)' <= max_size_main
        /\ (last'.op \in {"add", "get"} /\ contains_key(in_, last'.k)) =>
              LET k == last'.k
                  i == Entries(in_)
                  mn == Entries(main)
                  w == IF last'.op = "add" THEN last'.v ELSE i[Pos(i, k)][2]
              IN  /\ IF Len(mn) >= max_size_main
                     THEN /\ Entries(main)' =
                                <<<<k, w>>>> \o SubSeq(mn, 1, Len(mn) - 1)
                          /\ Entries(in_)' = <<mn[Len(mn)]>> \o Without(i, k)
                     ELSE /\ Entries(main)' = <<<<k, w>>>> \o mn
                          /\ Entries(in_)' = Without(i, k)
                  /\ last'.ev = <<>> /\ last'.cb = <<>> /\ ~last'.panic
                  /\ len(in_)' + len(main)' = len(in_) + len(main)
                  /\ KeysOf(Resident') = KeysOf(Resident)]_vars

\* an add promoted the only key in_ ever held while main held its one
\* entry: that entry now sits in the node of in_, the promoted key in the
\* node of main
C29_Witness ==
    /\ kind = "slru" /\ last.op = "add" /\ last.ret = NoneV
    /\ front(main) = Some(<<last.k, last.v>>) /\ len(main) = 1
    /\ len(in_) = 1
    /\ DOMAIN in_.heap = {1} /\ DOMAIN main.heap = {1}

\* --------------------------------------------------------------- C30
\* C30: an SLRU cache (default factor) evicts only in an add of a key that
\* is in neither segment while |in| + |main| = max_size; such an add evicts
\* exactly one entry, the back of in_, never an entry of main, and invokes
\* the callback once. get and a promoting add never evict.
C30_SlruEvictsIn ==
    [][(kind = "slru" /\ last'.op \in {"add", "get", "peek", "contains_key"}) =>
        LET k == last'.k
            gone == KeysOf(Resident) \ KeysOf(Resident')
        IN  IF /\ last'.op = "add" /\ k \notin KeysOf(Resident)
               /\ len(in_) + len(main) = max_size
            THEN /\ last'.ev = back(in_) /\ Len(last'.ev) = 1
                 /\ last'.cb = IF callback THEN back(in_) ELSE <<>>
                 /\ gone = {back(in_)[1][1]}
                 /\ Entries(main)' = Entries(main)
                 /\ Without(Entries(in_)', k) =
                       SubSeq(Entries(in_), 1, len(in_) - 1)
            ELSE /\ last'.ev = <<>> /\ last'.cb = <<>>
                 /\ gone = {}]_vars

\* a full SLRU cache with an entry in each segment and a callback took a
\* new key: the entry of in_ went to the callback, main kept its own
C30_Witness ==
    /\ kind = "slru" /\ callback
    /\ last.op = "add" /\ Len(last.cb) = 1 /\ ~last.panic
    /\ front(in_) = Some(<<last.k, last.v>>)
    /\ len(in_) = 1 /\ len(main) = 1

\* --------------------------------------------------------------- C23
\* C23: 2Q promotion from in_. A get or add of a key in in_ moves it to the
\* front of main without ensure_space: nothing is evicted, the callback is
\* not invoked, |in| + |main| and out are unchanged (main may reach
\* max_size); add stores the new value and returns the value held before,
\* get returns the value. A key already in main is moved to the front of
\* main, add replacing the value and returning the old one.
C23_Q2Promotes ==
    [][(kind = "q2" /\ last'.op \in {"add", "get"}
            /\ seg_contains_key(in_, main, last'.k)) =>
        LET k == last'.k
            i == Entries(in_)
            mn == Entries(main)
            held == IF contains_key(main, k) THEN mn[Pos(mn, k)][2]
                    ELSE i[Pos(i, k)][2]
            w == IF last'.op = "add" THEN last'.v ELSE held
        IN  /\ last'.ret = Some(held)
            /\ last'.ev = <<>> /\ last'.cb = <<>> /\ ~last'.panic
            /\ out' = out
            /\ len(in_)' + len(main)' = len(in_) + len(main)
            /\ IF contains_key(main, k)
               THEN /\ Entries(main)' = <<<<k, w>>>> \o Without(mn, k)
                    /\ in_' = in_
               ELSE /\ Entries(main)' = <<<<k, w>>>> \o mn
                    /\ Entries(in_)' = Without(i, k)]_vars

\* max_size keys were added and each was promoted, one by a get that hit and
\* one by a second add: in_ is empty (its two nodes are shells), main holds
\* max_size entries, nothing was ever evicted
C23_Witness ==
    /\ kind = "q2" /\ last.op \in {"add", "get"} /\ last.ret # NoneV
    /\ hit_count = 1 /\ miss_count = 0
    /\ len(in_) = 0 /\ in_.empty_len = 2
    /\ len(main) = max_size /\ main.empty_len = 0
    /\ front(main)[1][1] = last.k
    /\ DOMAIN out.heap = {}

\* --------------------------------------------------------------- C24
\* C24 (as stated): 2Q ghost admission. An add of a key in neither in_ nor
\* main returns none; with the key's fingerprint in out the fingerprint is
\* removed, ensure_space(true) runs and the key goes to the front of main,
\* otherwise ensure_space(false) runs and the key goes to the front of in_.
\* Hence a key evicted from in_ and re-added while its ghost is in out
\* enters main, while a never-seen key, or one whose ghost has aged out,
\* enters in_. The last sentence is taken right after an add that evicted
\* from in_ with main empty: out, of capacity one, then holds the ghost of
\* the evicted key and of no other key.
C24_GhostAdmission ==
    [][(kind = "q2" /\ last'.op = "add" /\ ~last'.panic
            /\ ~seg_contains_key(in_, main, last'.k)) =>
        LET k == last'.k
            v == last'.v
            fp == finish(hash_builder, k)
        IN  /\ last'.ret = NoneV
            /\ \E es \in {q2_ensure_space(in_, main, remove(out, fp).m,
                                          contains_key(out, fp))} :
                  /\ out' = es.out /\ last'.ev = es.ev
                  /\ IF contains_key(out, fp)
                     THEN /\ Entries(main)' = <<<<k, v>>>> \o Entries(es.main)
                          /\ Entries(in_)' = Entries(es.in_)
                     ELSE /\ Entries(in_)' = <<<<k, v>>>> \o Entries(es.in_)
                          /\ Entries(main)' = Entries(es.main)
            /\ (last.op = "add" /\ last.ev # <<>> /\ len(main) = 0
                    /\ max_size_out = 1) =>
                  IF k = last.ev[1][1]
                  THEN front(main)' = Some(<<k, v>>)
                  ELSE front(in_)' = Some(<<k, v>>)]_vars

\* C24 (amended): the same, the last sentence by fingerprints: right after
\* an add that evicted e from in_ with main empty, an added key in neither
\* segment enters main when its fingerprint equals that of e (e itself, or
\* a never-seen key that collides with it) and in_ otherwise.
C24_GhostByFingerprint ==
    [][(kind = "q2" /\ last'.op = "add" /\ ~last'.panic
            /\ ~seg_contains_key(in_, main, last'.k)) =>
        LET k == last'.k
            v == last'.v
            fp == finish(hash_builder, k)
        IN  /\ last'.ret = NoneV
            /\ \E es \in {q2_ensure_space(in_, main, remove(out, fp).m,
                                          contains_key(out, fp))} :
                  /\ out' = es.out /\ last'.ev = es.ev
                  /\ IF contains_key(out, fp)
                     THEN /\ Entries(main)' = <<<<k, v>>>> \o Entries(es.main)
                          /\ Entries(in_)' = Entries(es.in_)
                     ELSE /\ Entries(in_)' = <<<<k, v>>>> \o Entries(es.in_)
                          /\ Entries(main)' = Entries(es.main)
            /\ (last.op = "add" /\ last.ev # <<>> /\ len(main) = 0
                    /\ max_size_out = 1) =>
                  IF fp = finish(hash_builder, last.ev[1][1])
                  THEN front(main)' = Some(<<k, v>>)
                  ELSE front(in_)' = Some(<<k, v>>)]_vars

\* under the colliding hasher an add of the key WideKeys adds to Keys, a key
\* no node of in_ holds, found a fingerprint in out and put the key
\* straight into main, the first entry main ever had
C24_Witness ==
    /\ kind = "q2" /\ hash_builder = 1
    /\ last.op = "add" /\ last.k = MaxKey + 1 /\ last.ret = NoneV
    /\ front(main) = Some(<<last.k, last.v>>)
    /\ DOMAIN main.heap = {1}
    /\ \A a \in DOMAIN in_.heap : in_.heap[a].k # last.k

\* --------------------------------------------------------------- C25
\* C25 (as stated): 2Q remove(k) removes the fingerprint of k from out and
\* k from main or in_, returns its value (none when k is not resident) and
\* does not invoke the callback; so after k was evicted from in_ and
\* remove(k) was called, a later add(k, v) admits k to in_, not to main.
\* The later add is taken at once and after an add of one other key.
C25_RemoveForgets ==
    [][(kind = "q2" /\ last'.op = "remove") =>
        LET k == last'.k
            fp == finish(hash_builder, k)
            i == Entries(in_)
            mn == Entries(main)
        IN  /\ ~contains_key(out', fp)
            /\ Entries(out)' = Without(Entries(out), fp)
            /\ last'.ret = IF contains_key(main, k) THEN Some(mn[Pos(mn, k)][2])
                           ELSE IF contains_key(in_, k) THEN Some(i[Pos(i, k)][2])
                           ELSE NoneV
            /\ Entries(main)' = Without(mn, k)
            /\ Entries(in_)' = Without(i, k)
            /\ last'.ev = <<>> /\ last'.cb = <<>> /\ ~last'.panic
            /\ (last.op = "add" /\ last.ev # <<>> /\ last.ev[1][1] = k
                    /\ len(main) = 0) =>
                  \A v \in Vals :
                     /\ \E r \in {q2_add(in_', main', out', k, v, FALSE)} :
                           /\ front(r.in_) = Some(<<k, v>>)
                           /\ ~contains_key(r.main, k)
                     /\ \A x \in WideKeys \ {k} :
                           \E a \in {q2_add(in_', main', out', x, v, FALSE)} :
                           \E r \in {q2_add(a.in_, a.main, a.out, k, v, FALSE)} :
                              IF FALSE
                              THEN front(r.main) = Some(<<k, v>>)
                              ELSE /\ front(r.in_) = Some(<<k, v>>)
                                   /\ ~contains_key(r.main, k)]_vars

\* C25 (amended): the same, the later add admitting k to in_ unless a key
\* with the fingerprint of k was evicted from in_ in between, which admits
\* k to main.
C25_RemoveForgetsFingerprint ==
    [][(kind = "q2" /\ last'.op = "remove") =>
        LET k == last'.k
            fp == finish(hash_builder, k)
            i == Entries(in_)
            mn == Entries(main)
        IN  /\ ~contains_key(out', fp)
            /\ Entries(out)' = Without(Entries(out), fp)
            /\ last'.ret = IF contains_key(main, k) THEN Some(mn[Pos(mn, k)][2])
                           ELSE IF contains_key(in_, k) THEN Some(i[Pos(i, k)][2])
                           ELSE NoneV
            /\ Entries(main)' = Without(mn, k)
            /\ Entries(in_)' = Without(i, k)
            /\ last'.ev = <<>> /\ last'.cb = <<>> /\ ~last'.panic
            /\ (last.op = "add" /\ last.ev # <<>> /\ last.ev[1][1] = k
                    /\ len(main) = 0) =>
                  \A v \in Vals :
                     /\ \E r \in {q2_add(in_', main', out', k, v, FALSE)} :
                           /\ front(r.in_) = Some(<<k, v>>)
                           /\ ~contains_key(r.main, k)
                     /\ \A x \in WideKeys \ {k} :
                           \E a \in {q2_add(in_', main', out', x, v, FALSE)} :
                           \E r \in {q2_add(a.in_, a.main, a.out, k, v, FALSE)} :
                              IF a.ev # <<>> /\ contains_key(in_', a.ev[1][1])
                                 /\ finish(hash_builder, a.ev[1][1]) = fp
                              THEN front(r.main) = Some(<<k, v>>)
                              ELSE /\ front(r.in_) = Some(<<k, v>>)
                                   /\ ~contains_key(r.main, k)]_vars

\* a key evicted from in_ of a full cache was removed: its ghost, the only
\* node out ever had, is a shell, main never held an entry
C25_Witness ==
    /\ kind = "q2" /\ callback
    /\ last.op = "remove" /\ last.ret = NoneV
    /\ len(in_) = max_size /\ DOMAIN main.heap = {}
    /\ len(out) = 0 /\ out.empty_len = 1 /\ DOMAIN out.heap = {1}

\* --------------------------------------------------------------- C26
\* C26: after any sequence of ordered-map operations the live list is a
\* well-formed doubly linked list: the head has no predecessor, the tail no
\* successor, every link between two nodes is met by the link back, head
\* and tail are none exactly when the map is empty and the same node
\* exactly when len = 1, and no freelist shell is reachable from head or
\* tail.
C26_ListWellFormed ==
    kind = "map" =>
        LET m == l_map
            RECURSIVE Back(_, _)
            Back(p, fuel) == IF p = None \/ fuel = 0 THEN <<>>
                             ELSE <<p>> \o Back(m.heap[p].prev, fuel - 1)
            fwd == Chain(m, m.head, Fuel(m))
            bwd == Back(m.tail, Fuel(m))
            Set(q) == {q[j] : j \in 1..Len(q)}
            shells == Set(Freelist(m))
        IN  /\ (m.head = None) <=> (len(m) = 0)
            /\ (m.tail = None) <=> (len(m) = 0)
            /\ m.head # None => m.heap[m.head].prev = None
            /\ m.tail # None => m.heap[m.tail].next = None
            /\ \A a \in Set(fwd) \cup Set(bwd) :
                  /\ m.heap[a].next # None => m.heap[m.heap[a].next].prev = a
                  /\ m.heap[a].prev # None => m.heap[m.heap[a].prev].next = a
                  /\ m.heap[a].next = None => a = m.tail
                  /\ m.heap[a].prev = None => a = m.head
            /\ (m.head # None /\ m.head = m.tail) <=> (len(m) = 1)
            /\ Len(fwd) = len(m) /\ Len(bwd) = len(m)
            /\ Set(fwd) \cap shells = {} /\ Set(bwd) \cap shells = {}

\* the head of two entries was moved to the back while the freelist held
\* a shell
C26_Witness ==
    /\ kind = "map" /\ last.op = "move_to_back" /\ last.ret = TRUE
    /\ len(l_map) = 2 /\ l_map.empty_len = 1
    /\ back(l_map)[1][1] = last.k /\ front(l_map)[1][1] # last.k

\* --------------------------------------------------------------- C27
\* C27: freelist accounting. empty_len always equals the number of shells
\* on the freelist chain, so the assert_eq of drop_empty never fails; every
\* successful pop_front, pop_back, remove or remove_entry adds one to it; a
\* push_front / push_back of a new key takes one from it when it is
\* positive and leaves it at zero otherwise; a push of an existing key,
\* move_to_front / move_to_back and lookups leave it unchanged;
\* shrink_to_fit sets it to zero without changing the live entries or
\* their order.
C27_FreelistAccounting ==
    [][kind = "map" =>
        LET op == last'.op
            n == l_map.empty_len
        IN  /\ l_map'.empty_len = Len(Freelist(l_map'))
            /\ ~last'.panic
            /\ op \in {"pop_front", "pop_back", "remove", "remove_entry"} =>
                  l_map'.empty_len = IF last'.ret # NoneV THEN n + 1 ELSE n
            /\ op \in {"push_front", "push_back"} =>
                  l_map'.empty_len = IF contains_key(l_map, last'.k) \/ n = 0
                                     THEN n ELSE n - 1
            /\ op \in {"move_to_front", "move_to_back", "get", "get_key_value",
                       "contains_key", "front", "back", "get_mut", "front_mut",
                       "back_mut"} =>
                  l_map'.empty_len = n /\ Freelist(l_map') = Freelist(l_map)
            /\ op = "shrink_to_fit" =>
                  /\ ~last'.abort
                  /\ l_map'.empty_len = 0 /\ l_map'.empty = None
                  /\ Entries(l_map') = Entries(l_map)
                  /\ EntriesBack(l_map') = EntriesBack(l_map)]_vars

\* --------------------------------------------------------------- C28
\* C28: the number of nodes the map owns, len + empty_len, never decreases
\* except in shrink_to_fit and clear, and grows, by one, only when a new
\* key is pushed while the freelist is empty; so it is the largest len
\* reached since the last shrink_to_fit / clear or since construction
\* (step by step: it is the larger of its old value and the new len, and
\* it is len right after shrink_to_fit and clear), and the nodes allocated
\* are exactly these.
C28_NodesOwned ==
    [][(kind = "map" /\ last'.op # "drop") =>
        LET op == last'.op
            n == len(l_map) + l_map.empty_len
            n2 == len(l_map') + l_map'.empty_len
        IN  /\ Cardinality(DOMAIN l_map'.heap) = n2
            /\ IF op \in {"shrink_to_fit", "clear"}
               THEN /\ n2 = len(l_map')
                    /\ n2 <= n
               ELSE /\ n2 >= n
                    /\ n2 = IF /\ op \in {"push_front", "push_back"}
                               /\ ~contains_key(l_map, last'.k)
                               /\ l_map.empty_len = 0
                            THEN n + 1 ELSE n
                    /\ n2 = IF len(l_map') > n THEN len(l_map') ELSE n]_vars

\* a new key was pushed into an empty map that owned two shells: one was
\* reused, the other is still on the freelist, no node was allocated
C28_Witness ==
    /\ kind = "map" /\ last.op = "push_back" /\ last.ret = NoneV
    /\ len(l_map) = 1 /\ l_map.empty_len = 1
    /\ Cardinality(DOMAIN l_map.heap) = 2

C32_NoEmptyPop ==
    (kind = "q2" /\ Alive) =>
        /\ \A recent_evict \in BOOLEAN :
              /\ len(in_) + len(main) >= max_size =>
                    IF len(in_) > 0
                       /\ (len(in_) > max_size_in
                           \/ (len(in_) = max_size_in /\ ~recent_evict))
                    THEN back(in_) # NoneV
                    ELSE back(main) # NoneV
              /\ ~q2_ensure_space(in_, main, out, recent_evict).panic
        /\ (last.op = "add" /\ last.panic) => last.cb # <<>>

\* both entries of a full cache were in main, in_ was empty: an add of a
\* new key popped main (the evicted pair left no ghost) and went into in_
C32_Witness ==
    /\ kind = "q2" /\ callback
    /\ last.op = "add" /\ last.ret = NoneV /\ ~last.panic
    /\ Len(last.ev) = 1
    /\ front(in_) = Some(<<last.k, last.v>>) /\ len(in_) = 1
    /\ len(main) = 1 /\ DOMAIN out.heap = {}

====
